---- MODULE Spec2Model ----
(***************************************************************************)
(* A model of the zoom_downloader scrape core: the response handler of     *)
(* ZoomMediaScraper.extract_media_info (scraper.py), the helpers it calls, *)
(* and the extraction session around it.                                   *)
(*                                                                         *)
(* Strings.  A Python string is a finite sequence of tokens; a token is a  *)
(* piece of text that the program only ever tests as a whole (".mp4",      *)
(* "thumbnail", "https://", "/", a word).  `x in s` on a marker x is       *)
(* membership of the token in the sequence, s.startswith("/") is a test of *)
(* the first token, s.lower() and s.upper() map every token, and string    *)
(* concatenation is \o.  Python's None is the one-token sequence <<"None">>*)
(* whose token occurs in no string, so that None and "" stay different.    *)
(*                                                                         *)
(* JSON.  A decoded JSON value is a record [t, v]: t is the type and v the *)
(* content: the token sequence of a string, the items of a list, the       *)
(* <<key, value>> pairs of an object in document order.                    *)
(***************************************************************************)
EXTENDS Integers, Sequences, FiniteSets, TLC

\* ------------------------------------------------------------ strings

None == <<"None">>

\* Python truthiness of an optional string: neither None nor "".
Truthy(s) == s # None /\ s # <<>>

\* x in s, for a marker token x.
Contains(s, tok) == \E i \in 1..Len(s) : s[i] = tok

\* str.lower() on one token: the tokens that carry upper-case letters.
LowerTok(tok) ==
    CASE tok = ".MP4" -> ".mp4"
      [] tok = ".VTT" -> ".vtt"
      [] tok = "Thumbnail" -> "thumbnail"
      [] tok = "Avatar" -> "avatar"
      [] tok = "Play/Info" -> "play/info"
      [] tok = "NWS/Recording" -> "nws/recording"
      [] tok = "SsrWeb" -> "ssrweb"
      [] tok = "ClosedCaption" -> "closedcaption"
      [] tok = "Sign" -> "sign"
      [] tok = "Design" -> "design"
      [] tok = "Zoom" -> "zoom"
      [] tok = "ZOOM" -> "zoom"
      [] tok = "B" -> "b"
      [] OTHER -> tok

Lower(s) == [i \in 1..Len(s) |-> LowerTok(s[i])]

\* str.upper() on one token: the file-type labels, the words of a caption file.
UpperTok(tok) ==
    CASE tok = "mp4" -> "MP4"
      [] tok = "Mp4" -> "MP4"
      [] tok = "vtt" -> "VTT"
      [] tok = "cc" -> "CC"
      [] tok = "Transcript" -> "TRANSCRIPT"
      [] tok = "chat" -> "CHAT"
      [] tok = "webvtt" -> "WEBVTT"
      [] tok = "WebVTT" -> "WEBVTT"
      [] tok = "note" -> "NOTE"
      [] OTHER -> tok

Upper(s) == [i \in 1..Len(s) |-> UpperTok(s[i])]

\* ------------------------------------------------------------ JSON values

JStr(s) == [t |-> "str", v |-> s]
JNum == [t |-> "num", v |-> <<>>]
JNull == [t |-> "null", v |-> <<>>]
JList(items) == [t |-> "list", v |-> items]
JObj(pairs) == [t |-> "obj", v |-> pairs]

\* key in d, for a decoded object d.
HasKey(d, key) == \E i \in 1..Len(d.v) : d.v[i][1] = key

\* d.get(key): the value of the last pair with that key (json.loads keeps the
\* last duplicate), None (the decoded null) when the key is absent.
PyGet(d, key) ==
    LET at == {i \in 1..Len(d.v) : d.v[i][1] = key}
    IN  IF at = {} THEN JNull
        ELSE d.v[CHOOSE i \in at : \A j \in at : j <= i][2]

\* d.get(key, default)
PyGetDefault(d, key, default) == IF HasKey(d, key) THEN PyGet(d, key) ELSE default

\* Python truthiness of a decoded value; JNum stands for a non-zero number.
PyTruthy(val) ==
    CASE val.t = "null" -> FALSE
      [] val.t = "num" -> TRUE
      [] OTHER -> val.v # <<>>

\* a or b
PyOr(a, b) == IF PyTruthy(a) THEN a ELSE b

\* What a MediaInfo field holds after `field = val`: the string itself, or a
\* placeholder for a value of another type (the dataclass does not check types).
NonString == <<"<non-string>">>

PyField(val) ==
    CASE val.t = "str" -> val.v
      [] val.t = "null" -> None
      [] OTHER -> NonString

\* ------------------------------------------------------------ MediaInfo

\* Another default title.
UntitledTitle == <<"Untitled_Recording">>

\* title: str = "Zoom_Recording"
DefaultTitle == <<"Zoom_Recording">>

MediaInfo ==
    [video_url |-> None, transcript_url |-> None, title |-> DefaultTitle,
     topic |-> None, start_time |-> None]

\* ------------------------------------------------------------ helpers

\* The text of a response body, as far as the program looks at it: the string
\* literals of the document in document order.
RECURSIVE BodyStrings(_)
RECURSIVE BodyStringsOfItems(_)
BodyStringsOfItems(items) ==
    IF items = <<>> THEN <<>>
    ELSE BodyStrings(Head(items)) \o BodyStringsOfItems(Tail(items))

RECURSIVE BodyStringsOfPairs(_)
BodyStringsOfPairs(pairs) ==
    IF pairs = <<>> THEN <<>>
    ELSE BodyStrings(Head(pairs)[2]) \o BodyStringsOfPairs(Tail(pairs))

BodyStrings(val) ==
    CASE val.t = "str" -> <<val.v>>
      [] val.t = "list" -> BodyStringsOfItems(val.v)
      [] val.t = "obj" -> BodyStringsOfPairs(val.v)
      [] OTHER -> <<>>

\* The tokens the pattern https?://[^\s"'<>\\]+ starts at and stops before.
SchemeToks == {"https://", "http://"}
StopToks == {" ", "\t", "<", ">", "'"}

\* The end of the run of non-stop tokens that starts at position i of s.
RECURSIVE RunEnd(_, _)
RunEnd(s, i) ==
    IF i < Len(s) /\ s[i + 1] \notin StopToks THEN RunEnd(s, i + 1) ELSE i

\* re.findall of the URL pattern in one string literal, scanning from position i:
\* a match is a scheme token followed by at least one non-stop token, taken to
\* the end of the run; the scan goes on after the match.
RECURSIVE FindUrlsFrom(_, _)
FindUrlsFrom(s, i) ==
    IF i > Len(s) THEN <<>>
    ELSE IF s[i] \in SchemeToks /\ i < Len(s) /\ s[i + 1] \notin StopToks
         THEN LET j == RunEnd(s, i)
              IN  <<SubSeq(s, i, j)>> \o FindUrlsFrom(s, j + 1)
         ELSE FindUrlsFrom(s, i + 1)

RECURSIVE _find_urls_in_text(_)
_find_urls_in_text(text) ==
    IF text = <<>> THEN <<>>
    ELSE FindUrlsFrom(Head(text), 1) \o _find_urls_in_text(Tail(text))

ZoomHost == <<"https://", "www.zoom.us">>

\* A variant that prefixes the host whatever the value starts with.
NormalizeAlwaysPrefix(url) == IF ~Truthy(url) THEN url ELSE ZoomHost \o url

_normalize_url(url) ==
    IF ~Truthy(url) THEN url
    ELSE IF url[1] = "/" THEN ZoomHost \o url
    ELSE url

\* raw.replace("/", "-").replace(":", "-").replace(" ", "_")
ReplaceTok(tok) ==
    CASE tok = "/" -> "-"
      [] tok = ":" -> "-"
      [] tok = " " -> "_"
      [] OTHER -> tok

\* s.strip(chars): leading and trailing tokens of the set are dropped.
RECURSIVE LStrip(_, _)
LStrip(s, chars) ==
    IF s # <<>> /\ Head(s) \in chars THEN LStrip(Tail(s), chars) ELSE s

RECURSIVE RStrip(_, _)
RStrip(s, chars) ==
    IF s # <<>> /\ s[Len(s)] \in chars THEN RStrip(SubSeq(s, 1, Len(s) - 1), chars) ELSE s

Strip(s, chars) == RStrip(LStrip(s, chars), chars)

Whitespace == {" ", "\t"}

_sanitize_title(raw) ==
    Strip([i \in 1..Len(raw) |-> ReplaceTok(raw[i])], Whitespace)

\* ------------------------------------------------------------ the classifier

\* The outcome of a piece of handler code: the accumulator it leaves behind and
\* whether it ended by raising an exception; the code after a piece that raised
\* does not run.
Ok(mi) == [media_info |-> mi, raised |-> FALSE]
Raise(mi) == [media_info |-> mi, raised |-> TRUE]

\* media_info.<field> = self._normalize_url(val): a value that is not a string has
\* no startswith and raises AttributeError.
AssignUrl(mi, field, val) ==
    IF val.t # "str" THEN Raise(mi)
    ELSE Ok([mi EXCEPT ![field] = _normalize_url(val.v)])

\* A variant with the video field names in the opposite order.
VideoKeysReversed == <<"fileUrl", "play_url", "downloadUrl", "mp4Url", "viewMp4Url">>

VideoKeys == <<"viewMp4Url", "mp4Url", "downloadUrl", "play_url", "fileUrl">>
TranscriptKeys ==
    <<"viewVttUrl", "vttUrl", "closedCaptionUrl", "transcriptUrl", "subtitleUrl", "chatFileUrl">>
TranscriptTypes == {<<"TRANSCRIPT">>, <<"VTT">>, <<"CC">>}

\* for key in keys: val = result.get(key); if val and not media_info.<field>: assign; break
RECURSIVE ScanKeys(_, _, _, _)
ScanKeys(result, keys, field, mi) ==
    IF keys = <<>> THEN Ok(mi)
    ELSE LET val == PyGet(result, Head(keys))
         IN  IF PyTruthy(val) /\ ~Truthy(mi[field])
             THEN AssignUrl(mi, field, val)
             ELSE ScanKeys(result, Tail(keys), field, mi)

\* A variant that prefers the play URL.
PlayOrDownload(rec_file) == PyOr(PyGet(rec_file, "play_url"), PyGet(rec_file, "download_url"))

\* dl = rec_file.get("download_url") or rec_file.get("play_url")
DownloadOrPlay(rec_file) == PyOr(PyGet(rec_file, "download_url"), PyGet(rec_file, "play_url"))

\* if ftype == "MP4" and dl and not media_info.video_url: ...
FileVideo(ftype, dl, mi) ==
    IF ftype = <<"MP4">> /\ PyTruthy(dl) /\ ~Truthy(mi.video_url)
    THEN AssignUrl(mi, "video_url", dl)
    ELSE Ok(mi)

\* if ftype in ("TRANSCRIPT", "VTT", "CC") and dl and not media_info.transcript_url: ...
\* r is what the statement before left.
FileTranscript(ftype, dl, r) ==
    IF r.raised THEN r
    ELSE IF ftype \in TranscriptTypes /\ PyTruthy(dl) /\ ~Truthy(r.media_info.transcript_url)
    THEN AssignUrl(r.media_info, "transcript_url", dl)
    ELSE Ok(r.media_info)

\* ftype = rec_file.get("file_type", "").upper(), and the two statements after it.
TypedFile(rec_file, ft, mi) ==
    IF ft.t # "str" THEN Raise(mi)
    ELSE FileTranscript(Upper(ft.v), DownloadOrPlay(rec_file),
                        FileVideo(Upper(ft.v), DownloadOrPlay(rec_file), mi))

\* One iteration of the loop over the recording files.
RecordingFile(rec_file, mi) ==
    IF rec_file.t # "obj" THEN Raise(mi)
    ELSE TypedFile(rec_file, PyGetDefault(rec_file, "file_type", JStr(<<>>)), mi)

RECURSIVE RecordingFiles(_, _)
\* The iterations after the first, which left r.
RestOfFiles(items, r) ==
    IF r.raised THEN r ELSE RecordingFiles(Tail(items), r.media_info)

RecordingFiles(items, mi) ==
    IF items = <<>> THEN Ok(mi)
    ELSE RestOfFiles(items, RecordingFile(Head(items), mi))

\* What `for rec_file in <val>` iterates over: the items of a list, the characters
\* of a string, the keys of an object; a number or None is not iterable.
Iterable(val) == val.t \in {"list", "str", "obj"}
IterItems(val) ==
    CASE val.t = "list" -> val.v
      [] val.t = "str" -> [i \in 1..Len(val.v) |-> JStr(<<val.v[i]>>)]
      [] val.t = "obj" -> [i \in 1..Len(val.v) |-> JStr(<<val.v[i][1]>>)]

\* A variant that keeps the topic and the title it already has.
CaptureTopicOnce(result, meet, mi) ==
    LET topic == PyOr(PyGet(meet, "topic"), PyGet(result, "topic"))
    IN  IF ~PyTruthy(topic) \/ Truthy(mi.topic) THEN Ok(mi)
        ELSE IF topic.t # "str" THEN Raise([mi EXCEPT !.topic = PyField(topic)])
        ELSE Ok([mi EXCEPT !.topic = topic.v, !.title = _sanitize_title(topic.v)])

\* topic = meet.get("topic") or result.get("topic"); if topic: ...
\* The topic is stored before the title is derived from it; a topic that is not a
\* string has no replace and raises AttributeError.
CaptureTopic(result, meet, mi) ==
    LET topic == PyOr(PyGet(meet, "topic"), PyGet(result, "topic"))
    IN  IF ~PyTruthy(topic) THEN Ok(mi)
        ELSE IF topic.t # "str" THEN Raise([mi EXCEPT !.topic = PyField(topic)])
        ELSE Ok([mi EXCEPT !.topic = topic.v, !.title = _sanitize_title(topic.v)])

CaptureStartTime(result, meet, mi) ==
    LET start_str == PyOr(PyGet(meet, "meetingStartTimeStr"), PyGet(result, "meetingStartTimeStr"))
    IN  IF PyTruthy(start_str) THEN Ok([mi EXCEPT !.start_time = PyField(start_str)])
        ELSE Ok(mi)

\* The loop over the transcript field names, after the loop over the video field
\* names left r.
ScanTranscriptKeys(result, r) ==
    IF r.raised THEN r
    ELSE ScanKeys(result, TranscriptKeys, "transcript_url", r.media_info)

\* for rec_file in result.get("recording_files", []): ...
ScanRecordingFiles(files, r) ==
    IF r.raised THEN r
    ELSE IF ~Iterable(files) THEN Raise(r.media_info)
    ELSE RecordingFiles(IterItems(files), r.media_info)

\* meet = result.get("meet", {}) and the topic: meet.get raises when meet is no object.
TopicOf(result, meet, r) ==
    IF r.raised THEN r
    ELSE IF meet.t # "obj" THEN Raise(r.media_info)
    ELSE CaptureTopic(result, meet, r.media_info)

StartTimeOf(result, meet, r) ==
    IF r.raised THEN r ELSE CaptureStartTime(result, meet, r.media_info)

\* The statements after the try block, on the decoded result.
CaptureResult(result, meet, mi) ==
    StartTimeOf(result, meet,
        TopicOf(result, meet,
            ScanRecordingFiles(PyGetDefault(result, "recording_files", JList(<<>>)),
                ScanTranscriptKeys(result,
                    ScanKeys(result, VideoKeys, "video_url", mi)))))

\* result = data.get("result", data); a result that is no object has no get that
\* takes a key, or none at all, and raises outside the try block.
DecodedResult(result, mi) ==
    IF result.t # "obj" THEN Raise(mi)
    ELSE CaptureResult(result, PyGetDefault(result, "meet", JObj(<<>>)), mi)

\* The body of a response: whether response.text() returns, whether json.loads
\* accepts the text, and the document (for a text json.loads rejects: the string
\* literals the text holds).
\* _capture_from_recording_api: only json.loads and data.get are inside the try.
_capture_from_recording_api(body, mi) ==
    IF ~body.parses \/ body.doc.t # "obj" THEN Ok(mi)
    ELSE DecodedResult(PyGetDefault(body.doc, "result", body.doc), mi)

\* A variant that also takes the URLs of preview images.
AnyVideoMarker(found_url) ==
    Contains(Lower(found_url), ".mp4") \/ Contains(Lower(found_url), "ssrweb")

IsVideoCandidate(found_url) ==
    LET low == Lower(found_url)
    IN  /\ Contains(low, ".mp4") \/ Contains(low, "ssrweb")
        /\ ~Contains(low, "thumbnail")
        /\ ~Contains(low, "avatar")

\* A variant that takes any URL of the text for a transcript.
AnyUrlIsTranscript(found_url) == TRUE

IsTranscriptCandidate(found_url) ==
    LET low == Lower(found_url)
    IN  Contains(low, ".vtt") \/ Contains(low, "closedcaption")

\* The URL the loop over the found URLs breaks at, given the positions of the
\* URLs that pass its test; None when the loop runs to its end.
FirstUrl(urls, at) ==
    IF at = {} THEN None
    ELSE urls[CHOOSE i \in at : \A j \in at : i <= j]

\* if not media_info.video_url: for found_url in ...: if <video test>: assign; break
FallbackVideo(video, mi) ==
    IF ~Truthy(mi.video_url) /\ video # None THEN [mi EXCEPT !.video_url = video] ELSE mi

\* if not media_info.transcript_url: for found_url in ...: if <test>: assign; break
FallbackTranscript(transcript, mi) ==
    IF ~Truthy(mi.transcript_url) /\ transcript # None
    THEN [mi EXCEPT !.transcript_url = transcript] ELSE mi

FallbackUrls(urls, mi) ==
    FallbackTranscript(FirstUrl(urls, {i \in 1..Len(urls) : IsTranscriptCandidate(urls[i])}),
        FallbackVideo(FirstUrl(urls, {i \in 1..Len(urls) : IsVideoCandidate(urls[i])}), mi))

_capture_from_json_fallback(body, mi) ==
    FallbackUrls(_find_urls_in_text(BodyStrings(body.doc)), mi)

\* ------------------------------------------------------------ handle_response

\* A response is [url, headers, body]: the URL string, the headers as an object,
\* and the body [readable, parses, doc] (see _capture_from_recording_api).
ContentType(response) == PyGetDefault(response.headers, "content-type", JStr(<<>>)).v

IsRecordingApi(response) ==
    LET resp_url == Lower(response.url)
    IN  Contains(resp_url, "nws/recording") \/ Contains(resp_url, "play/info")

\* A variant without the test that the video URL is still unset.
VideoContentTypeOverwrites(response, mi) ==
    IF Contains(ContentType(response), "video/")
    THEN [mi EXCEPT !.video_url = response.url]
    ELSE mi

\* if "video/" in content_type and not media_info.video_url: ...
VideoContentType(response, mi) ==
    IF Contains(ContentType(response), "video/") /\ ~Truthy(mi.video_url)
    THEN [mi EXCEPT !.video_url = response.url]
    ELSE mi

\* The URL-string heuristics on the lower-cased response URL.
UrlString(response, mi) ==
    LET resp_url == Lower(response.url)
        m1 == IF /\ Contains(resp_url, ".mp4") /\ ~Truthy(mi.video_url)
                 /\ ~Contains(resp_url, "thumbnail") /\ ~Contains(resp_url, "avatar")
              THEN [mi EXCEPT !.video_url = response.url] ELSE mi
    IN  IF Contains(resp_url, ".vtt") /\ ~Truthy(m1.transcript_url)
        THEN [m1 EXCEPT !.transcript_url = response.url] ELSE m1

\* A variant that goes on to read the body whatever the content type.
HandlerHeadAlwaysReads(response, mi) ==
    [media_info |-> UrlString(response, mi), reads_body |-> TRUE]

\* The handler up to the point where it either returns or calls response.text():
\* reads_body tells which.
HandlerHead(response, mi) ==
    LET m2 == UrlString(response, mi)
    IN  IF ~Contains(ContentType(response), "json")
        THEN [media_info |-> VideoContentType(response, m2), reads_body |-> FALSE]
        ELSE [media_info |-> m2, reads_body |-> TRUE]

\* A variant without the handler's outer try: the exception leaves the handler.
NoExcept(r) == r

\* except Exception: return
ExceptReturn(r) == Ok(r.media_info)

\* A variant with the content-type test before the raw-text scan.
AfterCaptureContentTypeFirst(response, api) ==
    IF api.raised THEN api
    ELSE Ok(_capture_from_json_fallback(response.body,
                VideoContentType(response, api.media_info)))

\* The statements after the structured capture, which left api: the raw-text scan
\* and the content-type test.
AfterCapture(response, api) ==
    IF api.raised THEN api
    ELSE Ok(VideoContentType(response,
                _capture_from_json_fallback(response.body, api.media_info)))

\* What the outer try makes of what its block left.
TryResult(inner, outer) ==
    [media_info |-> outer.media_info, raised |-> outer.raised, failed |-> inner.raised]

TryBlock(inner) == TryResult(inner, ExceptReturn(inner))

\* The handler from the return of response.text() on; failed tells whether an
\* exception was raised on the way, raised whether it left the handler.
HandlerTail(response, mi) ==
    IF ~response.body.readable
    THEN [media_info |-> mi, raised |-> FALSE, failed |-> TRUE]
    ELSE TryBlock(AfterCapture(response,
             IF IsRecordingApi(response)
             THEN _capture_from_recording_api(response.body, mi)
             ELSE Ok(mi)))

\* A run that read the body, and a run that returned before.
WithBody(tail) ==
    [media_info |-> tail.media_info, raised |-> tail.raised, failed |-> tail.failed,
     body_read |-> TRUE]
WithoutBody(head) ==
    [media_info |-> head.media_info, raised |-> FALSE, failed |-> FALSE, body_read |-> FALSE]

HeadThenTail(response, head) ==
    IF head.reads_body THEN WithBody(HandlerTail(response, head.media_info))
    ELSE WithoutBody(head)

\* One whole run of the handler on one response.
handle_response(response, mi) == HeadThenTail(response, HandlerHead(response, mi))

\* ------------------------------------------------------------ responses

Body(doc) == [readable |-> TRUE, parses |-> TRUE, doc |-> doc]
\* A text json.loads rejects, holding the given string literals.
BrokenBody(strings) ==
    [readable |-> TRUE, parses |-> FALSE, doc |-> JList([i \in 1..Len(strings) |-> JStr(strings[i])])]
\* response.text() raises.
UnreadableBody == [readable |-> FALSE, parses |-> FALSE, doc |-> JNull]

Headers(content_type) == JObj(<< <<"content-type", JStr(content_type)>> >>)
NoHeaders == JObj(<<>>)
CtJson == <<"application/", "json">>
CtVideo == <<"video/", "mp4">>
CtHtml == <<"text/", "html">>
CtVideoJson == <<"video/", "json">>

Response(u, h, b) == [url |-> u, headers |-> h, body |-> b]

uPage == <<"https://", "zoom.us", "/", "rec", "/", "share">>
uMp4 == <<"https://", "cdn", "/", "a", ".mp4">>
uMp4Upper == <<"https://", "cdn", "/", "B", ".MP4">>
uThumb == <<"https://", "cdn", "/", "Thumbnail", "/", "a", ".mp4">>
uVtt == <<"https://", "cdn", "/", "a", ".vtt">>
uApi == <<"https://", "zoom.us", "/", "nws/recording", "/", "1">>
uPlayInfo == <<"https://", "zoom.us", "/", "Play/Info", "/", "1">>
uApiMp4 == <<"https://", "zoom.us", "/", "nws/recording", "/", "1", ".mp4">>

sRelMp4 == <<"/", "rec", "/", "1", ".mp4">>
sAbsMp4 == <<"https://", "cdn", "/", "2", ".mp4">>
sAbsPlay == <<"https://", "cdn", "/", "play", "/", "3">>
sSsr == <<"https://", "ssrweb", "/", "4">>
sAvatar == <<"https://", "cdn", "/", "avatar", "/", "5", ".mp4">>
sAbsVtt == <<"https://", "cdn", "/", "6", ".vtt">>
sRelVtt == <<"/", "cc", "/", "7">>
sCaption == <<"https://", "cdn", "/", "closedcaption", "/", "8">>
sTopic == <<"Week", " ", "1", ":", " ", "AI", "/", "ML">>
sTopic2 == <<"\t", "Review", " ">>
sStart == <<"Jan", " ", "5">>

Rec(ftype, pairs) == JObj(<< <<"file_type", ftype>> >> \o pairs)

\* The responses the page may emit.
Exchanges == <<
    \* 1: a page whose text mentions a video, served as HTML
    Response(uPage, Headers(CtHtml), BrokenBody(<<sAbsMp4, sAbsVtt>>)),
    \* 2-5: media files
    Response(uMp4, Headers(CtVideo), UnreadableBody),
    Response(uMp4Upper, NoHeaders, UnreadableBody),
    Response(uThumb, NoHeaders, UnreadableBody),
    Response(uVtt, NoHeaders, UnreadableBody),
    \* 6: a stream under a plain URL
    Response(uPage, Headers(CtVideo), UnreadableBody),
    \* 7, 8: direct fields, from the recording API and from another endpoint
    Response(uApi, Headers(CtJson),
        Body(JObj(<< <<"viewMp4Url", JStr(sRelMp4)>>, <<"vttUrl", JStr(sCaption)>> >>))),
    Response(uPage, Headers(CtJson),
        Body(JObj(<< <<"viewMp4Url", JStr(sRelMp4)>>, <<"vttUrl", JStr(sRelVtt)>> >>))),
    \* 9: an envelope; the first video field is empty
    Response(uApi, Headers(CtJson),
        Body(JObj(<< <<"result", JObj(<< <<"viewMp4Url", JStr(<<>>)>>,
                                          <<"fileUrl", JStr(sAbsMp4)>>,
                                          <<"mp4Url", JStr(sAbsPlay)>>,
                                          <<"transcriptUrl", JStr(sRelVtt)>>,
                                          <<"viewVttUrl", JNull>> >>)>> >>))),
    \* 10, 11: recording files and metadata
    Response(uPlayInfo, Headers(CtJson),
        Body(JObj(<< <<"recording_files", JList(<<
                        Rec(JStr(<<"chat">>), << <<"download_url", JStr(sAbsPlay)>> >>),
                        Rec(JStr(<<"MP4">>), <<>>),
                        Rec(JStr(<<"Mp4">>), << <<"download_url", JStr(sAbsMp4)>>,
                                                <<"play_url", JStr(sAbsPlay)>> >>),
                        Rec(JStr(<<"MP4">>), << <<"download_url", JStr(sRelMp4)>> >>),
                        Rec(JStr(<<"cc">>), << <<"play_url", JStr(sRelVtt)>> >>),
                        Rec(JStr(<<"VTT">>), << <<"download_url", JStr(sAbsVtt)>> >>) >>)>>,
                     <<"meet", JObj(<< <<"topic", JStr(sTopic)>>,
                                       <<"meetingStartTimeStr", JStr(sStart)>> >>)>> >>))),
    Response(uApi, Headers(CtJson),
        Body(JObj(<< <<"result", JObj(<< <<"recording_files", JList(<<
                        Rec(JStr(<<"mp4">>), << <<"download_url", JNull>>,
                                                <<"play_url", JStr(sRelMp4)>> >>),
                        Rec(JStr(<<"Transcript">>), << <<"download_url", JStr(sAbsVtt)>>,
                                                       <<"play_url", JStr(sCaption)>> >>) >>)>>,
                                          <<"topic", JStr(sTopic2)>> >>)>> >>))),
    \* 12-14: bodies that cannot be read or decoded
    Response(uApi, Headers(CtJson), BrokenBody(<<sSsr, sAbsVtt>>)),
    Response(uApi, Headers(CtJson), UnreadableBody),
    Response(uPage, Headers(CtJson), Body(JList(<<JStr(sAvatar), JStr(sAbsMp4)>>))),
    \* 15-20: decoded values of unexpected shape
    Response(uApi, Headers(CtJson),
        Body(JObj(<< <<"result", JNull>>, <<"viewMp4Url", JStr(sAbsMp4)>> >>))),
    Response(uApi, Headers(CtJson),
        Body(JObj(<< <<"mp4Url", JStr(sAbsPlay)>>, <<"recording_files", JNull>>,
                     <<"vttUrl", JStr(sAbsVtt)>> >>))),
    Response(uApi, Headers(CtJson),
        Body(JObj(<< <<"recording_files", JList(<<
                        Rec(JNum, <<>>),
                        Rec(JStr(<<"MP4">>), << <<"download_url", JStr(sAbsMp4)>> >>) >>)>> >>))),
    Response(uApi, Headers(CtJson),
        Body(JObj(<< <<"meet", JObj(<< <<"topic", JNum>> >>)>>,
                     <<"meetingStartTimeStr", JStr(sStart)>> >>))),
    Response(uMp4, Headers(CtJson),
        Body(JObj(<< <<"viewMp4Url", JNum>>, <<"vttUrl", JStr(sAbsVtt)>> >>))),
    Response(uApi, Headers(CtJson),
        Body(JObj(<< <<"recording_files", JStr(<<"none">>)>>, <<"topic", JStr(sTopic)>> >>))),
    \* 21: metadata alone
    Response(uPlayInfo, Headers(CtJson),
        Body(JObj(<< <<"topic", JStr(sTopic)>>, <<"meetingStartTimeStr", JStr(sStart)>> >>))),
    \* 22: a JSON content type that also names a stream
    Response(uPage, Headers(CtVideoJson), Body(JObj(<<>>))),
    \* 23: text with candidates for the raw-body scan
    Response(uPage, Headers(CtJson),
        Body(JObj(<< <<"note", JStr(<<"see", " ", "https://", "cdn", "/", "Thumbnail", ".mp4",
                                      " ", "http://", "cdn", "/", "SsrWeb", "/", "9">>)>>,
                     <<"cc", JStr(sCaption)>> >>))),
    \* 24, 25: a JSON content type that also names a stream, with a video in the body
    Response(uApi, Headers(CtVideoJson),
        Body(JObj(<< <<"viewMp4Url", JStr(sRelMp4)>>,
                     <<"recording_files", JList(<<
                        Rec(JStr(<<"MP4">>), << <<"download_url", JStr(sAbsPlay)>> >>) >>)>> >>))),
    Response(uPage, Headers(CtVideoJson), Body(JObj(<< <<"note", JStr(sAbsMp4)>> >>))),
    \* 26: a video file that the recording API serves with fields
    Response(uApiMp4, Headers(CtJson), Body(JObj(<< <<"viewMp4Url", JStr(sAbsMp4)>> >>)))
>>

ExchangeIds == 1..Len(Exchanges)

\* ------------------------------------------------------------ state

VARIABLES
    pc,                 \* where the session's flow of control stands
    media_info,         \* the accumulator of the session
    elapsed,            \* the polling loop's counter of seconds
    poll_interval,      \* ZoomMediaScraper.poll_interval
    max_wait_seconds,   \* ZoomMediaScraper.max_wait_seconds
    selector,           \* the position of the DOM fallback in its selector list
    pending,            \* the handlers suspended in response.text()
    ticks,              \* how many times the polling loop has slept
    quiet,              \* no matching response emitted, no DOM probe found an element
    nav,                \* how page.goto ended: "none" before it has, "ok", "failed"
    graces,             \* how many times the polling loop has slept its grace wait
    earlier,            \* what the call before left: "none" (no call), "empty", "held"
    handled,            \* the last run of the handler: the response, the accumulator before
    norm,               \* an argument of _normalize_url and the value after some calls
    vtt,                \* parse_vtt_cues: its argument and its locals
    raw_title,          \* what page.title() returned to the title fallback, None before
    cli                 \* the download command: its locals, and what it has done so far

sessionVars ==
    <<elapsed, poll_interval, max_wait_seconds, selector, pending, ticks, quiet, nav, graces,
      earlier>>
vars == <<pc, media_info, elapsed, poll_interval, max_wait_seconds, selector, pending,
          ticks, quiet, nav, graces, earlier, handled, norm, vtt, raw_title, cli>>

NotHandled ==
    [exchange |-> 0, before |-> MediaInfo, body_read |-> FALSE, raised |-> FALSE,
     failed |-> FALSE]
NoNorm == [url |-> None, calls |-> 0, value |-> None]
NoVtt ==
    [vtt_text |-> <<>>, lines |-> <<>>, i |-> 0, cues |-> <<>>, timestamp |-> None,
     text_lines |-> <<>>, before |-> <<>>, out |-> None, prefix |-> <<>>, parts |-> <<>>,
     whole |-> <<>>]

\* The commands of the CLI before one is called.  snapshot is the cookie snapshot
\* file: "none" (no file), "anon" (no Zoom login cookie in it), "auth"; context is
\* the browser context; log is the sequence of the calls made so far.
NoPrefs == [style |-> "none", format |-> "none"]
NoCli ==
    [command |-> "none", url |-> <<>>, snapshot |-> "none", logged_in |-> "unknown",
     choice |-> "0", transcript_prefs |-> NoPrefs, context |-> "none", raising |-> FALSE,
     video |-> "none", vtt_text |-> None, log |-> <<>>]

\* The variables of the session, at rest.
SessionIdle ==
    /\ elapsed = 0
    /\ poll_interval = 1
    /\ max_wait_seconds = 0
    /\ selector = 0
    /\ pending = {}
    /\ ticks = 0
    /\ quiet = TRUE
    /\ nav = "none"
    /\ graces = 0
    /\ earlier = "none"

\* ------------------------------------------------------------ the classifier alone

\* The handler is run on one response after another, on one accumulator.
InitClassify ==
    /\ pc = "classify"
    /\ media_info = MediaInfo
    /\ handled = NotHandled
    /\ norm = NoNorm
    /\ vtt = NoVtt
    /\ raw_title = None
    /\ cli = NoCli
    /\ SessionIdle

\* What is kept of a run of the handler on response i.
HandlerRun(i, before, r) ==
    [exchange |-> i, before |-> before, body_read |-> r.body_read, raised |-> r.raised,
     failed |-> r.failed]

Classified(i, r) ==
    /\ media_info' = r.media_info
    /\ handled' = HandlerRun(i, media_info, r)

Classify(i) ==
    /\ pc = "classify"
    /\ Classified(i, handle_response(Exchanges[i], media_info))
    /\ UNCHANGED <<pc, sessionVars, norm, vtt, raw_title, cli>>

NextClassify == \E i \in ExchangeIds : Classify(i)

SpecClassify == InitClassify /\ [][NextClassify]_vars

\* ------------------------------------------------------------ _normalize_url alone

MaxUrlLen == 3
MaxCalls == 2
UrlToks == {"/", "https://", "www.zoom.us", "a"}

RECURSIVE StringsUpTo(_, _)
StringsUpTo(toks, n) ==
    IF n = 0 THEN {<<>>}
    ELSE LET shorter == StringsUpTo(toks, n - 1)
         IN  shorter \cup {Append(x, tok) : x \in shorter, tok \in toks}

InitNormalize ==
    /\ pc = "normalize"
    /\ media_info = MediaInfo
    /\ handled = NotHandled
    /\ \E u \in {None} \cup StringsUpTo(UrlToks, MaxUrlLen) :
           norm = [url |-> u, calls |-> 0, value |-> u]
    /\ vtt = NoVtt
    /\ raw_title = None
    /\ cli = NoCli
    /\ SessionIdle

Normalize ==
    /\ pc = "normalize"
    /\ norm.calls < MaxCalls
    /\ norm' = [norm EXCEPT !.calls = @ + 1, !.value = _normalize_url(@)]
    /\ UNCHANGED <<pc, media_info, sessionVars, handled, vtt, raw_title, cli>>

NextNormalize == Normalize

SpecNormalize == InitNormalize /\ [][NextNormalize]_vars

\* ------------------------------------------------------------ caption text (transcript.py)

\* A caption text is a sequence of tokens as well: a word, a blank, a line break,
\* the byte-order mark "BOM", the arrow "-->", the characters "<" and ">", a
\* character reference ("&amp;") or the character it stands for; "NBSP" is U+00A0.
LineBreaks == {"\n", "\r\n"}

\* str.strip() strips what str.isspace() holds of, re's \s matches the same.
Space == {" ", "\t", "NBSP"}

\* vtt_text.replace("\ufeff", "")
RECURSIVE RemoveBom(_)
RemoveBom(text) ==
    IF text = <<>> THEN <<>>
    ELSE IF Head(text) = "BOM" THEN RemoveBom(Tail(text))
    ELSE <<Head(text)>> \o RemoveBom(Tail(text))

\* str.splitlines(): a line break ends a line; what follows the last line break is
\* a line when it is not empty.  line is the line being read.
RECURSIVE SplitFrom(_, _)
SplitFrom(text, line) ==
    IF text = <<>> THEN (IF line = <<>> THEN <<>> ELSE <<line>>)
    ELSE IF Head(text) \in LineBreaks THEN <<line>> \o SplitFrom(Tail(text), <<>>)
    ELSE SplitFrom(Tail(text), Append(line, Head(text)))

splitlines(text) == SplitFrom(text, <<>>)

\* The tokens that end with the character ">".
ClosesTag == {">", "-->"}

\* The position of the first token of s from position k on that ends a tag, 0 when
\* there is none.
RECURSIVE CloseFrom(_, _)
CloseFrom(s, k) ==
    IF k > Len(s) THEN 0
    ELSE IF s[k] \in ClosesTag THEN k
    ELSE CloseFrom(s, k + 1)

\* What tag_re.sub leaves of s, which starts with "<", when the first tag end of s
\* is at position close: "<[^>]+>" needs one character at least between "<" and ">".
RECURSIVE tag_re_sub(_)
AfterOpen(s, close) ==
    IF close = 0 \/ (close = 2 /\ s[2] = ">") THEN <<"<">> \o tag_re_sub(Tail(s))
    ELSE tag_re_sub(SubSeq(s, close + 1, Len(s)))

\* self.tag_re.sub("", line), tag_re = re.compile(r"<[^>]+>")
tag_re_sub(s) ==
    IF s = <<>> THEN <<>>
    ELSE IF Head(s) = "<" THEN AfterOpen(s, CloseFrom(s, 2))
    ELSE <<Head(s)>> \o tag_re_sub(Tail(s))

\* html.unescape on one token.
UnescapeTok(tok) ==
    CASE tok = "&amp;" -> "&"
      [] tok = "&lt;" -> "<"
      [] tok = "&gt;" -> ">"
      [] tok = "&nbsp;" -> "NBSP"
      [] OTHER -> tok

unescape(s) == [k \in 1..Len(s) |-> UnescapeTok(s[k])]

\* re.sub(r"\s+", " ", text): a run of white space becomes one blank.
RECURSIVE CollapseSpace(_)
CollapseSpace(s) ==
    IF s = <<>> THEN <<>>
    ELSE IF Head(s) \in Space THEN <<" ">> \o CollapseSpace(LStrip(s, Space))
    ELSE <<Head(s)>> \o CollapseSpace(Tail(s))

\* A variant that leaves the markup in.
CleanKeepsTags(line) == Strip(CollapseSpace(unescape(line)), Space)

\* The one element of a set of one element.
Only(S) == CHOOSE x \in S : TRUE

\* text = self.tag_re.sub("", line); text = html.unescape(text);
\* return re.sub(r"\s+", " ", text).strip()
\* Each assignment is computed once and its value handed to the next one.
_clean_caption_line(line) ==
    Only({Strip(normal, Space) :
            normal \in {CollapseSpace(text) :
                          text \in {unescape(bare) : bare \in {tag_re_sub(line)}}}})

\* " ".join(text_lines)
RECURSIVE JoinBlank(_)
JoinBlank(text_lines) ==
    IF text_lines = <<>> THEN <<>>
    ELSE IF Len(text_lines) = 1 THEN text_lines[1]
    ELSE text_lines[1] \o <<" ">> \o JoinBlank(Tail(text_lines))

VTTCue(timestamp, text) == [timestamp |-> timestamp, text |-> text]

\* ------------------------------------------------------------ parse_vtt_cues

\* The lines of caption files, and two whole cue blocks.
lBlank == <<>>
lSpaces == <<" ", "\t">>
lNote == <<"NOTE", " ", "cut", " ", "-->", " ", "here">>
lTiming1 == <<"00:00:01.000", " ", "-->", " ", "00:00:02.000">>
lTiming2 == <<"00:00:03.000", " ", "-->", " ", "00:00:04.000">>
lTimingPadded == <<" ", "00:00:05.000", " ", "-->", " ", "00:00:06.000", " ">>
lId == <<"1">>
lHello == <<"Hello", " ", "<", "b", ">", "world", "<", "/b", ">">>
lTagsOnly == <<"<", "i", ">", "&nbsp;", "<", "/i", ">">>
lEntity == <<" ", "a", " ", "\t", "&amp;", "&nbsp;", "<", "i", ">", "b">>

\* A timing line, a text line and the end of that line.
CueBlock(timing, text) == timing \o <<"\n">> \o text \o <<"\n">>
bCue1 == CueBlock(lTiming1, lHello)
bCue2 == CueBlock(lTiming2, lEntity)

\* A text line and the end of that line: a block that has no timing line.
bStray == lHello \o <<"\n">>

LinePool == {lBlank, lNote, lTimingPadded, lId, bStray, lTagsOnly, bCue1, bCue2}

\* What a caption file starts with and ends with.
hHeader == <<"WEBVTT", "\n", "\n">>
hBomHeader == <<"BOM", "webvtt", "\r\n">> \o lSpaces \o <<"\r\n">>
Prefixes == {<<>>, hHeader, hBomHeader}

MaxVttParts == 3

\* The text made of the given parts: a line break between two parts.
RECURSIVE JoinLines(_)
JoinLines(body) ==
    IF body = <<>> THEN <<>>
    ELSE IF Len(body) = 1 THEN body[1]
    ELSE body[1] \o <<"\n">> \o JoinLines(Tail(body))

VttText(prefix, body) == prefix \o JoinLines(body)

\* lines = vtt_text.replace("\ufeff", "").splitlines(); cues = []; i = 0
ParseStart(vtt_text) ==
    [vtt_text |-> vtt_text, lines |-> splitlines(RemoveBom(vtt_text)), i |-> 0,
     cues |-> <<>>, timestamp |-> None, text_lines |-> <<>>, before |-> <<>>, out |-> None,
     prefix |-> <<>>, parts |-> <<>>, whole |-> <<>>]

InitVtt ==
    /\ pc = "convert"
    /\ vtt = NoVtt
    /\ raw_title = None
    /\ cli = NoCli
    /\ media_info = MediaInfo
    /\ handled = NotHandled
    /\ norm = NoNorm
    /\ SessionIdle

\* parse_vtt_cues is called with a text.
ParseCall ==
    /\ pc = "convert"
    /\ pc' = "scan"
    /\ \E n \in 0..MaxVttParts : \E body \in [1..n -> LinePool] :
           \E prefix \in Prefixes :
               vtt' = [ParseStart(VttText(prefix, body)) EXCEPT !.prefix = prefix,
                                                                !.parts = body]
    /\ UNCHANGED <<media_info, sessionVars, handled, norm, raw_title, cli>>

\* lines[k] of the code, whose indexes start at 0.
LineAt(k) == vtt.lines[k + 1]

\* line.startswith("NOTE")
StartsWithNote(line) == line # <<>> /\ Head(line) \in {"NOTE", "NOTES"}

\* if not line or line.upper() == "WEBVTT" or line.startswith("NOTE")
Skipped(line) == line = <<>> \/ Upper(line) = <<"WEBVTT">> \/ StartsWithNote(line)

\* The cue starts: its timestamp is kept and the line index moves by step.
\* A cue start that leaves the line index where it is.
CueStartsInPlace(timestamp, step) ==
    /\ pc' = "collect"
    /\ vtt' = [vtt EXCEPT !.timestamp = timestamp, !.text_lines = <<>>]

CueStarts(timestamp, step) ==
    /\ pc' = "collect"
    /\ vtt' = [vtt EXCEPT !.timestamp = timestamp, !.i = @ + step, !.text_lines = <<>>]

\* The iteration goes on to the next line.
NextLine ==
    /\ pc' = "scan"
    /\ vtt' = [vtt EXCEPT !.i = @ + 1]

\* An iteration that takes the identifier line for the timing line.
ScanLineKeepsIdentifier(line) ==
    IF Skipped(line) THEN NextLine
    ELSE IF Contains(line, "-->") THEN CueStarts(line, 1)
    ELSE IF vtt.i + 1 < Len(vtt.lines) /\ Contains(LineAt(vtt.i + 1), "-->")
    THEN CueStarts(line, 1)
    ELSE NextLine

\* One iteration of the outer loop, up to the inner loop; line is lines[i].strip().
ScanLine(line) ==
    IF Skipped(line) THEN NextLine
    ELSE IF Contains(line, "-->") THEN CueStarts(line, 1)
    ELSE IF vtt.i + 1 < Len(vtt.lines) /\ Contains(LineAt(vtt.i + 1), "-->")
    THEN CueStarts(Strip(LineAt(vtt.i + 1), Space), 2)
    ELSE NextLine

Scan ==
    /\ pc = "scan"
    /\ vtt.i < Len(vtt.lines)
    /\ ScanLine(Strip(LineAt(vtt.i), Space))
    /\ UNCHANGED <<media_info, sessionVars, handled, norm, raw_title, cli>>

\* An inner loop that goes on after a blank line.
InBlockToTheEnd == vtt.i < Len(vtt.lines)

\* while i < len(lines) and lines[i].strip()
InBlock == vtt.i < Len(vtt.lines) /\ Strip(LineAt(vtt.i), Space) # <<>>

\* if cleaned: text_lines.append(cleaned)
Collected(cleaned) ==
    vtt' = [vtt EXCEPT !.i = @ + 1,
                       !.text_lines = IF cleaned # <<>> THEN Append(@, cleaned) ELSE @]

\* One iteration of the inner loop.
Collect ==
    /\ pc = "collect"
    /\ InBlock
    /\ Collected(_clean_caption_line(Strip(LineAt(vtt.i), Space)))
    /\ UNCHANGED <<pc, media_info, sessionVars, handled, norm, raw_title, cli>>

\* A parser that appends the cue whatever its text.
AppendsAnyCue(cue_text) == vtt' = [vtt EXCEPT !.cues = Append(@, VTTCue(vtt.timestamp, cue_text))]

\* if cue_text: cues.append(VTTCue(timestamp=timestamp, text=cue_text))
AppendCue(cue_text) ==
    vtt' = [vtt EXCEPT !.cues = IF cue_text # <<>>
                                 THEN Append(@, VTTCue(vtt.timestamp, cue_text)) ELSE @]

\* The inner loop ends: cue_text = " ".join(text_lines).strip()
EndCue ==
    /\ pc = "collect"
    /\ ~InBlock
    /\ AppendCue(Strip(JoinBlank(vtt.text_lines), Space))
    /\ pc' = "scan"
    /\ UNCHANGED <<media_info, sessionVars, handled, norm, raw_title, cli>>

\* The outer loop ends: return cues
ReturnCues ==
    /\ pc = "scan"
    /\ ~(vtt.i < Len(vtt.lines))
    /\ pc' = "parsed"
    /\ UNCHANGED <<media_info, sessionVars, handled, norm, vtt, raw_title, cli>>

\* The same text is parsed once more; before keeps what the first call returned.
ParseAgain ==
    /\ pc = "parsed"
    /\ vtt.before = <<>>
    /\ vtt.whole = <<>>
    /\ pc' = "scan"
    /\ vtt' = [ParseStart(vtt.vtt_text) EXCEPT !.before = <<vtt.cues>>]
    /\ UNCHANGED <<media_info, sessionVars, handled, norm, raw_title, cli>>

\* The parts that end with a line break, so that a blank line follows them.
Separated == {lBlank, bCue1, bCue2, bStray}

\* Part k is a block without a timing line, between blank lines or the ends.
Malformed(parts, k) ==
    parts[k] = bStray /\ (IF k = 1 THEN TRUE ELSE parts[k - 1] \in Separated)

Without(parts, k) == SubSeq(parts, 1, k - 1) \o SubSeq(parts, k + 1, Len(parts))

\* The text is parsed once more without one of its blocks that have no timing line;
\* whole keeps what the call on the whole text returned.
ParseWithout ==
    /\ pc = "parsed"
    /\ vtt.before = <<>>
    /\ vtt.whole = <<>>
    /\ pc' = "scan"
    /\ \E k \in 1..Len(vtt.parts) :
           /\ Malformed(vtt.parts, k)
           /\ vtt' = [ParseStart(VttText(vtt.prefix, Without(vtt.parts, k)))
                        EXCEPT !.whole = <<vtt.cues>>]
    /\ UNCHANGED <<media_info, sessionVars, handled, norm, raw_title, cli>>

\* A loop that appends every cue text.
RECURSIVE ChunksKeepAll(_, _)
ChunksKeepAll(cues, prev) ==
    IF cues = <<>> THEN <<>>
    ELSE <<Head(cues).text>> \o ChunksKeepAll(Tail(cues), Head(cues).text)

\* for cue in cues: if cue.text != prev: chunks.append(cue.text); prev = cue.text
RECURSIVE Chunks(_, _)
Chunks(cues, prev) ==
    IF cues = <<>> THEN <<>>
    ELSE IF Head(cues).text # prev
    THEN <<Head(cues).text>> \o Chunks(Tail(cues), Head(cues).text)
    ELSE Chunks(Tail(cues), prev)

\* A rendering that ends the paragraph with a blank.
ParagraphTrailingBlank(cues) == JoinBlank(Chunks(cues, None)) \o <<" ">>

\* paragraph = " ".join(chunks).strip(); return re.sub(r"\s+", " ", paragraph)
vtt_to_paragraph(cues) == CollapseSpace(Strip(JoinBlank(Chunks(cues, None)), Space))

\* Blocks that put a blank between the timestamp and the text.
BlocksOnOneLine(cues) ==
    [k \in 1..Len(cues) |-> cues[k].timestamp \o <<" ">> \o cues[k].text]

\* blocks = [f"{cue.timestamp}\n{cue.text}" for cue in cues]
Blocks(cues) ==
    [k \in 1..Len(cues) |-> cues[k].timestamp \o <<"\n">> \o cues[k].text]

\* "\n\n".join(blocks)
RECURSIVE JoinBlankLine(_)
JoinBlankLine(blocks) ==
    IF blocks = <<>> THEN <<>>
    ELSE IF Len(blocks) = 1 THEN blocks[1]
    ELSE blocks[1] \o <<"\n", "\n">> \o JoinBlankLine(Tail(blocks))

\* A rendering without the newline at the end.
TimestampedBare(cues) == Strip(JoinBlankLine(Blocks(cues)), Space \cup LineBreaks)

\* return "\n\n".join(blocks).strip() + "\n"
vtt_to_timestamped_txt(cues) ==
    Strip(JoinBlankLine(Blocks(cues)), Space \cup LineBreaks) \o <<"\n">>

\* vtt_to_paragraph, after its call of parse_vtt_cues.
ToParagraph ==
    /\ pc = "parsed"
    /\ pc' = "paragraph"
    /\ vtt' = [vtt EXCEPT !.out = vtt_to_paragraph(vtt.cues)]
    /\ UNCHANGED <<media_info, sessionVars, handled, norm, raw_title, cli>>

\* vtt_to_timestamped_txt, after its call of parse_vtt_cues.
ToTimestamped ==
    /\ pc = "parsed"
    /\ pc' = "timestamped"
    /\ vtt' = [vtt EXCEPT !.out = vtt_to_timestamped_txt(vtt.cues)]
    /\ UNCHANGED <<media_info, sessionVars, handled, norm, raw_title, cli>>

NextVtt ==
    \/ ParseCall
    \/ Scan
    \/ Collect
    \/ EndCue
    \/ ReturnCues
    \/ ParseAgain
    \/ ParseWithout
    \/ ToParagraph
    \/ ToTimestamped

\* The loops of the parser are run to their end.
FairSpecVtt == InitVtt /\ [][NextVtt]_vars /\ WF_vars(Scan \/ Collect \/ EndCue \/ ReturnCues)

SpecVtt == InitVtt /\ [][NextVtt]_vars

\* ------------------------------------------------------------ the extraction session

\* The page, as the session sees it.  A call on the page suspends the caller until
\* the call returns or raises; while the session is suspended in one, the
\* dispatcher delivers response events, so handlers run, and a handler that calls
\* response.text() is suspended in turn.  During time.sleep nothing else runs.

\* The session is inside page.goto, page.title, count, get_attribute or page.close.
InCall ==
    pc \in {"goto", "poll_title", "video_count", "video_attr", "track_count", "track_attr",
            "page_title", "close"}

\* The responses the page emits during a session.
SessionExchanges == {2, 4, 5, 11, 13, 21}

HasMarkerIn(str, markers) == \E i \in 1..Len(str) : str[i] \in markers

\* A response that carries a media URL: a video or caption marker in its URL (a
\* thumbnail or an avatar is no video), a media content type, or a URL-like string
\* in a body the handler reads.
Relative(str) == str # <<>> /\ str[1] = "/"
BodyHasUrl(doc) ==
    LET strings == BodyStrings(doc)
    IN  \E i \in 1..Len(strings) :
            _find_urls_in_text(<<strings[i]>>) # <<>> \/ Relative(strings[i])
Matching(response) ==
    \/ /\ HasMarkerIn(Lower(response.url), {".mp4"})
       /\ ~HasMarkerIn(Lower(response.url), {"thumbnail", "avatar"})
    \/ HasMarkerIn(Lower(response.url), {".vtt"})
    \/ Contains(ContentType(response), "video/")
    \/ /\ Contains(ContentType(response), "json")
       /\ response.body.readable
       /\ BodyHasUrl(response.body.doc)

\* What the DOM holds under src, and what the page shows as its title.
domVideo == <<"https://", "cdn", "/", "dom", ".mp4">>
domBlob == <<"blob:", "https://", "zoom.us", "/", "1">>
domTrack == <<"https://", "cdn", "/", "dom", ".vtt">>
VideoSrcs == {None, <<>>, domBlob, domVideo}
TrackSrcs == {None, domTrack}
tClass == <<"AI", " ", "Class", " ", "-", " ", "Zoom">>
tSignIn == <<"Sign", " ", "In", " ", "-", " ", "ZOOM">>
tBrand == <<"Zoom">>
tDesign == <<"Design", " ", "Review", " ", "-", " ", "Zoom">>
tBare == <<"-", " ", "Zoom">>
PageTitles == {<<>>, tClass, tSignIn, tBrand, tDesign, tBare}

\* The lower-case words that hold the letters "sign".
SignWords == {"sign", "design"}

MaxPollInterval == 5
MaxWait == 16
MaxPending == 1
ProgressEvery == 15
SelectorCount == 2

\* for selector in ["video source", "video"]: the variable selector is the position
\* of the loop in this list.
Selectors == <<"video source", "video">>

Init ==
    /\ pc = "new_page"
    /\ media_info = MediaInfo
    /\ elapsed = 0
    /\ poll_interval \in 1..MaxPollInterval
    /\ max_wait_seconds \in {0, ProgressEvery, MaxWait}
    /\ selector = 0
    /\ pending = {}
    /\ ticks = 0
    /\ quiet = TRUE
    /\ nav = "none"
    /\ graces = 0
    /\ earlier = "none"
    /\ handled = NotHandled
    /\ norm = NoNorm
    /\ vtt = NoVtt
    /\ raw_title = None
    /\ cli = NoCli

\* re.sub(r"_*-_*Zoom$", "", clean, flags=re.IGNORECASE)
RemoveBranding(clean) ==
    IF clean = <<>> \/ LowerTok(clean[Len(clean)]) # "zoom" THEN clean
    ELSE LET before == RStrip(SubSeq(clean, 1, Len(clean) - 1), {"_"})
         IN  IF before # <<>> /\ before[Len(before)] = "-"
             THEN RStrip(SubSeq(before, 1, Len(before) - 1), {"_"})
             ELSE clean

\* The title the page-title fallback leaves, given what page.title() returned.
TitleFromPage(given, title) ==
    IF given = <<>> THEN title
    ELSE LET clean == Strip(RemoveBranding(_sanitize_title(given)), {"_", "-", " "})
         IN  IF clean # <<>> /\ ~HasMarkerIn(Lower(clean), SignWords) THEN clean ELSE title

\* The statement the session reaches after the video fallback, the track fallback
\* and the title fallback: each fallback starts with a test of its field.
AtTitleSkipsClose(mi) == IF mi.title = DefaultTitle THEN "page_title" ELSE "returned"
AtTitle(mi) == IF mi.title = DefaultTitle THEN "page_title" ELSE "close"
AtTrack(mi) == IF ~Truthy(mi.transcript_url) THEN "track_count" ELSE AtTitle(mi)
AtVideo(mi) == IF ~Truthy(mi.video_url) THEN "video_count" ELSE AtTrack(mi)

\* A call that goes on with the accumulator the call before left.
NewPageKeepsAccumulator ==
    /\ pc = "new_page"
    /\ pc' \in {"on", "raised"}
    /\ UNCHANGED <<media_info, sessionVars, handled, norm, vtt, raw_title, cli>>

\* page = context.new_page(); media_info = MediaInfo()
NewPage ==
    /\ pc = "new_page"
    /\ \/ pc' = "on" /\ media_info' = MediaInfo
       \/ pc' = "raised" /\ UNCHANGED media_info
    /\ UNCHANGED <<sessionVars, handled, norm, vtt, raw_title, cli>>

\* page.on("response", handle_response), then the call of page.goto
Subscribe ==
    /\ pc = "on"
    /\ pc' \in {"goto", "raised"}
    /\ UNCHANGED <<media_info, sessionVars, handled, norm, vtt, raw_title, cli>>

\* page.goto returns or raises; the error is printed and the session goes on.
GotoReturns ==
    /\ pc = "goto"
    /\ pc' = "loop"
    /\ nav' \in {"ok", "failed"}
    /\ elapsed' = 0
    /\ UNCHANGED <<media_info, poll_interval, max_wait_seconds, graces, earlier, selector,
                   pending, ticks, quiet, handled, norm, vtt, raw_title, cli>>

\* A loop that runs once more when elapsed has reached the maximum wait.
LoopConditionInclusive == elapsed <= max_wait_seconds

\* while elapsed < max_wait_seconds
LoopCondition == elapsed < max_wait_seconds

\* A loop that takes either URL for its signal to stop.
AfterTickAnyUrl(mi, now) ==
    IF Truthy(mi.video_url) \/ Truthy(mi.transcript_url) THEN "grace"
    ELSE IF now % ProgressEvery = 0 THEN "poll_title"
    ELSE "loop"

\* if media_info.video_url: ... break; if elapsed % 15 == 0: ... page.title()
AfterTick(mi, now) ==
    IF Truthy(mi.video_url) THEN "grace"
    ELSE IF now % ProgressEvery = 0 THEN "poll_title"
    ELSE "loop"

\* One iteration of the polling loop up to its next call on the page.
PollTick ==
    /\ pc = "loop"
    /\ LoopCondition
    /\ elapsed' = elapsed + poll_interval
    /\ ticks' = ticks + 1
    /\ pc' = AfterTick(media_info, elapsed')
    /\ UNCHANGED <<media_info, poll_interval, max_wait_seconds, nav, graces, earlier,
                   selector, pending, quiet, handled, norm, vtt, raw_title, cli>>

\* page.title() in the loop returns or raises; either way a note is printed.
PollTitleReturns ==
    /\ pc = "poll_title"
    /\ pc' = "loop"
    /\ UNCHANGED <<media_info, sessionVars, handled, norm, vtt, raw_title, cli>>

\* A loop that goes on polling after its grace wait.
GraceKeepsPolling ==
    /\ pc = "grace"
    /\ pc' = "loop"
    /\ graces' = graces + 1
    /\ selector' = selector
    /\ UNCHANGED <<media_info, elapsed, poll_interval, max_wait_seconds, nav, earlier,
                   pending, ticks, quiet, handled, norm, vtt, raw_title, cli>>

\* time.sleep(2); break
Grace ==
    /\ pc = "grace"
    /\ pc' = AtVideo(media_info)
    /\ graces' = graces + 1
    /\ selector' = 1
    /\ UNCHANGED <<media_info, elapsed, poll_interval, max_wait_seconds, nav, earlier,
                   pending, ticks, quiet, handled, norm, vtt, raw_title, cli>>

\* The loop condition fails.
LoopExit ==
    /\ pc = "loop"
    /\ ~LoopCondition
    /\ pc' = AtVideo(media_info)
    /\ selector' = 1
    /\ UNCHANGED <<media_info, elapsed, poll_interval, max_wait_seconds, nav, graces,
                   earlier, pending, ticks, quiet, handled, norm, vtt, raw_title, cli>>

\* The loop over the selectors goes to its next selector, or ends.
NextSelector ==
    IF selector < SelectorCount
    THEN pc' = "video_count" /\ selector' = selector + 1
    ELSE pc' = AtTrack(media_info) /\ selector' = selector

\* page.locator(selector).first.count() returns 0, returns more, or raises.
VideoCountReturns ==
    /\ pc = "video_count"
    /\ \E outcome \in {"none", "found", "error"} :
           /\ IF outcome = "found" THEN pc' = "video_attr" /\ selector' = selector
              ELSE NextSelector
           /\ quiet' = (quiet /\ outcome # "found")
    /\ UNCHANGED <<media_info, elapsed, poll_interval, max_wait_seconds, nav, graces,
                   earlier, pending, ticks, handled, norm, vtt, raw_title, cli>>

\* A test that takes any non-empty src.
QualifiesAnySrc(src) == Truthy(src)

\* if src and "blob:" not in src
Qualifies(src) == Truthy(src) /\ ~Contains(src, "blob:")

\* element.get_attribute("src") returns or raises.
VideoAttrReturns ==
    /\ pc = "video_attr"
    /\ \/ \E src \in VideoSrcs :
              IF Qualifies(src)
              THEN /\ media_info' = [media_info EXCEPT !.video_url = src]
                   /\ pc' = AtTrack(media_info')
                   /\ selector' = selector
              ELSE NextSelector /\ UNCHANGED media_info
       \/ NextSelector /\ UNCHANGED media_info
    /\ UNCHANGED <<elapsed, poll_interval, max_wait_seconds, nav, graces, earlier, pending,
                   ticks, quiet, handled, norm, vtt, raw_title, cli>>

\* page.locator("track").first.count() returns 0, returns more, or raises.
TrackCountReturns ==
    /\ pc = "track_count"
    /\ \E outcome \in {"none", "found", "error"} :
           /\ pc' = IF outcome = "found" THEN "track_attr" ELSE AtTitle(media_info)
           /\ quiet' = (quiet /\ outcome # "found")
    /\ UNCHANGED <<media_info, elapsed, poll_interval, max_wait_seconds, nav, graces,
                   earlier, selector, pending, ticks, handled, norm, vtt, raw_title, cli>>

\* track.get_attribute("src") returns or raises.
TrackAttrReturns ==
    /\ pc = "track_attr"
    /\ \/ \E src \in TrackSrcs :
              media_info' = IF Truthy(src) THEN [media_info EXCEPT !.transcript_url = src]
                            ELSE media_info
       \/ UNCHANGED media_info
    /\ pc' = AtTitle(media_info')
    /\ UNCHANGED <<sessionVars, handled, norm, vtt, raw_title, cli>>

\* page.title() of the title fallback returns or raises; then the call of page.close.
PageTitleReturns ==
    /\ pc = "page_title"
    /\ \/ \E given \in PageTitles :
              /\ raw_title' = given
              /\ media_info' = [media_info EXCEPT !.title = TitleFromPage(given, @)]
       \/ UNCHANGED <<media_info, raw_title>>
    /\ pc' = "close"
    /\ UNCHANGED <<sessionVars, handled, norm, vtt, cli>>

\* page.close() returns, and the session returns media_info.to_dict(); or it raises.
\* Either way the locals of the call are gone.
CloseReturns ==
    /\ pc = "close"
    /\ pc' \in {"returned", "raised"}
    /\ pending' = {}
    /\ raw_title' = None
    /\ UNCHANGED <<media_info, elapsed, poll_interval, max_wait_seconds, nav, graces,
                   earlier, selector, ticks, quiet, handled, norm, vtt, cli>>

\* What the handler did up to its return or up to its call of response.text().
HandlerStarted(i, head) ==
    /\ media_info' = head.media_info
    /\ IF head.reads_body
       THEN Cardinality(pending) < MaxPending /\ pending' = pending \cup {i}
       ELSE pending' = pending

\* A response event is delivered: the handler runs up to its return or up to its
\* call of response.text().
HandlerStarts(i) ==
    /\ InCall
    /\ i \notin pending
    /\ HandlerStarted(i, HandlerHead(Exchanges[i], media_info))
    /\ quiet' = (quiet /\ ~Matching(Exchanges[i]))
    /\ UNCHANGED <<pc, elapsed, poll_interval, max_wait_seconds, nav, graces, earlier,
                   selector, ticks, handled, norm, vtt, raw_title, cli>>

\* response.text() returns or raises in a suspended handler, which runs to its end.
HandlerResumes(i) ==
    /\ InCall
    /\ i \in pending
    /\ media_info' = HandlerTail(Exchanges[i], media_info).media_info
    /\ pending' = pending \ {i}
    /\ UNCHANGED <<pc, elapsed, poll_interval, max_wait_seconds, nav, graces, earlier,
                   selector, ticks, quiet, handled, norm, vtt, raw_title, cli>>

\* extract_media_info is called again, on the same scraper: its poll interval and
\* maximum wait are those of the call before, its locals are new.  Until the call
\* makes its accumulator, media_info stands for the one the call before left.
NextCall ==
    /\ pc \in {"returned", "raised"}
    /\ pc' = "new_page"
    /\ earlier' = IF Truthy(media_info.video_url) \/ Truthy(media_info.transcript_url)
                  THEN "held" ELSE "empty"
    /\ elapsed' = 0
    /\ selector' = 0
    /\ pending' = {}
    /\ ticks' = 0
    /\ quiet' = TRUE
    /\ nav' = "none"
    /\ graces' = 0
    /\ UNCHANGED <<media_info, poll_interval, max_wait_seconds, handled, norm, vtt, raw_title, cli>>

Main ==
    \/ NewPage
    \/ Subscribe
    \/ GotoReturns
    \/ PollTick
    \/ PollTitleReturns
    \/ Grace
    \/ LoopExit
    \/ VideoCountReturns
    \/ VideoAttrReturns
    \/ TrackCountReturns
    \/ TrackAttrReturns
    \/ PageTitleReturns
    \/ CloseReturns

Next ==
    \/ Main
    \/ NextCall
    \/ \E i \in SessionExchanges : HandlerStarts(i)
    \/ \E i \in SessionExchanges : HandlerResumes(i)

Spec == Init /\ [][Next]_vars

\* Every call on the page returns or raises in the end, and the session's own
\* statements run: the session is not starved by the handlers.
FairSpec == Spec /\ WF_vars(Main)

\* ------------------------------------------------------------ properties of the classifier

\* The response of the last handler run, and the accumulator after its URL-string
\* step (and, for a content type that is not JSON, its content-type step).
Handled == handled.exchange # 0
LastResponse == Exchanges[handled.exchange]
AfterHead == HandlerHead(LastResponse, handled.before).media_info
IsJson(response) == Contains(ContentType(response), "json")
SameMetadata(a, b) == a.title = b.title /\ a.topic = b.topic /\ a.start_time = b.start_time

\* C2: over any sequence of responses handled one after another, a URL field that
\* holds a value keeps that value: video_url and transcript_url each change at most
\* once.
C2_FirstWins ==
    [][/\ Truthy(media_info.video_url) => media_info'.video_url = media_info.video_url
       /\ Truthy(media_info.transcript_url)
              => media_info'.transcript_url = media_info.transcript_url]_vars

\* A response that alone would have supplied another video URL was handled when one
\* was already held.
C2_Witness ==
    /\ Handled
    /\ Truthy(handled.before.video_url)
    /\ LET alone == handle_response(LastResponse, MediaInfo).media_info.video_url
       IN  Truthy(alone) /\ alone # media_info.video_url

\* C5: no run of the handler lets an exception out, and when an exception is raised
\* inside (an unreadable body, a decoded value of unexpected shape) the URL fields
\* hold what had been assigned up to that point: the values of the URL-string step,
\* and the values the structured capture had assigned when it raised.
C5_HandlerNeverRaises ==
    Handled =>
        /\ ~handled.raised
        /\ Truthy(AfterHead.video_url) => media_info.video_url = AfterHead.video_url
        /\ Truthy(AfterHead.transcript_url)
               => media_info.transcript_url = AfterHead.transcript_url
        /\ (handled.failed /\ LastResponse.body.readable) =>
               LET partial == _capture_from_recording_api(LastResponse.body, AfterHead).media_info
               IN  /\ media_info.video_url = partial.video_url
                   /\ media_info.transcript_url = partial.transcript_url

\* The structured capture assigned a video URL and then raised on a value of
\* unexpected shape.
C5_Witness ==
    /\ Handled
    /\ handled.failed
    /\ LastResponse.body.readable
    /\ ~Truthy(AfterHead.video_url)
    /\ Truthy(media_info.video_url)

\* The well-typed payloads of the field and record scans: the values under the
\* known field names are strings or null, a record is an object whose file_type
\* and URLs are strings or null.
StrOrNull(val) == val.t \in {"str", "null"}
TypedFields(result) ==
    /\ \A i \in 1..Len(VideoKeys) : StrOrNull(PyGet(result, VideoKeys[i]))
    /\ \A i \in 1..Len(TranscriptKeys) : StrOrNull(PyGet(result, TranscriptKeys[i]))
TypedRecord(rec) ==
    /\ rec.t = "obj"
    /\ PyGetDefault(rec, "file_type", JStr(<<>>)).t = "str"
    /\ StrOrNull(PyGet(rec, "download_url"))
    /\ StrOrNull(PyGet(rec, "play_url"))

\* The body of the last response decoded to an object whose result (the value
\* under "result" when there is one, the object itself otherwise) is an object.
DecodesToResult ==
    /\ LastResponse.body.readable
    /\ LastResponse.body.parses
    /\ LastResponse.body.doc.t = "obj"
    /\ PyGetDefault(LastResponse.body.doc, "result", LastResponse.body.doc).t = "obj"
LastResult == PyGetDefault(LastResponse.body.doc, "result", LastResponse.body.doc)

\* The first key of the list with a non-empty value in result, 0 when there is none.
FirstKey(result, keys) ==
    LET at == {i \in 1..Len(keys) : PyTruthy(PyGet(result, keys[i]))}
    IN  IF at = {} THEN 0 ELSE CHOOSE i \in at : \A j \in at : i <= j

\* The ordered list of video field names, as the claim states it.
StatedVideoFields == <<"viewMp4Url", "mp4Url", "downloadUrl", "play_url", "fileUrl">>

\* The host-prefixed form of a relative value.
Absolute(value) == IF value[1] = "/" THEN <<"https://", "www.zoom.us">> \o value ELSE value

KnownFieldsAdopted ==
    /\ (~Truthy(AfterHead.video_url) /\ FirstKey(LastResult, StatedVideoFields) # 0) =>
           media_info.video_url
               = Absolute(PyGet(LastResult, StatedVideoFields[FirstKey(LastResult, StatedVideoFields)]).v)
    /\ (~Truthy(AfterHead.transcript_url) /\ FirstKey(LastResult, TranscriptKeys) # 0) =>
           media_info.transcript_url
               = Absolute(PyGet(LastResult, TranscriptKeys[FirstKey(LastResult, TranscriptKeys)]).v)

\* C7, as stated: for every response with a JSON content type whose body decodes to
\* an object, whatever its URL, an unset URL field becomes the normalized value of
\* the first known field name that has a non-empty value.
C7_AsStated ==
    (Handled /\ IsJson(LastResponse) /\ DecodesToResult /\ TypedFields(LastResult))
        => KnownFieldsAdopted

\* C7, amended: the same, for the responses whose lower-cased URL contains
\* "nws/recording" or "play/info"; the known field names of other responses are not
\* looked at.
C7_KnownFields ==
    (/\ Handled /\ IsJson(LastResponse) /\ DecodesToResult /\ TypedFields(LastResult)
     /\ IsRecordingApi(LastResponse))
        => KnownFieldsAdopted

\* A recording API response whose first video field is empty supplied the video URL
\* from a later field of the list.
C7_Witness ==
    /\ Handled /\ IsJson(LastResponse) /\ DecodesToResult /\ TypedFields(LastResult)
    /\ IsRecordingApi(LastResponse)
    /\ ~Truthy(AfterHead.video_url)
    /\ FirstKey(LastResult, StatedVideoFields) > 1
    /\ HasKey(LastResult, StatedVideoFields[1])
    /\ Truthy(media_info.video_url)

\* The records of the last response's recording_files list, and what the claim
\* says of one record: its labels in any letter case, its URL with download_url
\* preferred to play_url.
LastFiles == PyGetDefault(LastResult, "recording_files", JList(<<>>))
Mp4Labels == {<<"MP4">>, <<"Mp4">>, <<"mp4">>}
TranscriptLabels ==
    {<<"TRANSCRIPT">>, <<"Transcript">>, <<"VTT">>, <<"vtt">>, <<"CC">>, <<"cc">>}
HasUrl(rec) == PyTruthy(PyGet(rec, "download_url")) \/ PyTruthy(PyGet(rec, "play_url"))
RecUrl(rec) ==
    IF PyTruthy(PyGet(rec, "download_url")) THEN PyGet(rec, "download_url").v
    ELSE PyGet(rec, "play_url").v
FirstRecord(files, labels) ==
    LET at == {i \in 1..Len(files) :
                   PyGetDefault(files[i], "file_type", JStr(<<>>)).v \in labels /\ HasUrl(files[i])}
    IN  IF at = {} THEN 0 ELSE CHOOSE i \in at : \A j \in at : i <= j

\* A recording API response with a list of well-typed records was decoded.
RecordingFilesScanned ==
    /\ Handled /\ IsJson(LastResponse) /\ DecodesToResult /\ IsRecordingApi(LastResponse)
    /\ TypedFields(LastResult)
    /\ LastFiles.t = "list"
    /\ \A i \in 1..Len(LastFiles.v) : TypedRecord(LastFiles.v[i])

\* C6: for a payload with a recording_files list, a URL field that is unset when
\* the scan of the records starts becomes the normalized URL of the first record
\* with a matching file_type (MP4 for the video; TRANSCRIPT, VTT or CC for the
\* transcript; in any letter case) that has a URL, and the URL of a record is its
\* download_url when it has one, its play_url otherwise.
C6_RecordingFiles ==
    RecordingFilesScanned =>
        /\ (/\ ~Truthy(AfterHead.video_url) /\ FirstKey(LastResult, StatedVideoFields) = 0
            /\ FirstRecord(LastFiles.v, Mp4Labels) # 0) =>
               media_info.video_url
                   = Absolute(RecUrl(LastFiles.v[FirstRecord(LastFiles.v, Mp4Labels)]))
        /\ (/\ ~Truthy(AfterHead.transcript_url) /\ FirstKey(LastResult, TranscriptKeys) = 0
            /\ FirstRecord(LastFiles.v, TranscriptLabels) # 0) =>
               media_info.transcript_url
                   = Absolute(RecUrl(LastFiles.v[FirstRecord(LastFiles.v, TranscriptLabels)]))

\* From unset URLs, the first MP4 record that has a URL came after an MP4 record
\* without one and has both a download_url and a play_url.
C6_Witness ==
    /\ RecordingFilesScanned
    /\ ~Truthy(AfterHead.video_url) /\ FirstKey(LastResult, StatedVideoFields) = 0
    /\ ~Truthy(AfterHead.transcript_url) /\ FirstKey(LastResult, TranscriptKeys) = 0
    /\ FirstRecord(LastFiles.v, Mp4Labels) > 1
    /\ FirstRecord(LastFiles.v, TranscriptLabels) # 0
    /\ LET rec == LastFiles.v[FirstRecord(LastFiles.v, Mp4Labels)]
       IN  /\ PyTruthy(PyGet(rec, "download_url")) /\ PyTruthy(PyGet(rec, "play_url"))
           /\ media_info.video_url = PyGet(rec, "download_url").v

\* What the claims call a candidate of the raw-body scan.
HasMarker(u, markers) == \E i \in 1..Len(u) : LowerTok(u[i]) \in markers
VideoCandidate(u) ==
    HasMarker(u, {".mp4", "ssrweb"}) /\ ~HasMarker(u, {"thumbnail", "avatar"})
TranscriptCandidate(u) == HasMarker(u, {".vtt", "closedcaption"})
\* u is the first URL of the body text that satisfies P.
FirstInText(u, P(_)) ==
    LET urls == _find_urls_in_text(BodyStrings(LastResponse.body.doc))
    IN  \E i \in 1..Len(urls) : urls[i] = u /\ P(u) /\ \A j \in 1..(i - 1) : ~P(urls[j])

Unparseable ==
    /\ Handled /\ IsJson(LastResponse)
    /\ LastResponse.body.readable /\ ~LastResponse.body.parses

\* C9, as stated: a body that fails to parse contributes nothing: all five fields
\* hold after the handler what they held after the URL-string step.
C9_AsStated == Unparseable => media_info = AfterHead

\* C9, amended: a body that fails to parse contributes no metadata (title, topic and
\* start_time hold what they held after the URL-string step) and no structured URL;
\* a URL field set by then keeps its value, and an unset one is still filled by the
\* raw-body scan with the first candidate URL in the text of the unparseable body
\* (or, for the video, with the response URL under a media content type).
C9_OnlyRawScan ==
    Unparseable =>
        /\ SameMetadata(media_info, AfterHead)
        /\ \/ media_info.video_url = AfterHead.video_url
           \/ /\ ~Truthy(AfterHead.video_url)
              /\ \/ FirstInText(media_info.video_url, VideoCandidate)
                 \/ /\ media_info.video_url = LastResponse.url
                    /\ Contains(ContentType(LastResponse), "video/")
        /\ \/ media_info.transcript_url = AfterHead.transcript_url
           \/ /\ ~Truthy(AfterHead.transcript_url)
              /\ FirstInText(media_info.transcript_url, TranscriptCandidate)

\* A body that failed to parse supplied the video URL.
C9_Witness ==
    /\ Unparseable
    /\ ~Truthy(AfterHead.video_url)
    /\ FirstInText(media_info.video_url, VideoCandidate)

\* C10: for a response whose content type does not indicate JSON the body is not
\* read, the metadata is left alone, and a URL field either keeps its value or
\* takes the response URL.
C10_NonJsonBodyUnread ==
    (Handled /\ ~IsJson(LastResponse)) =>
        /\ ~handled.body_read
        /\ SameMetadata(media_info, handled.before)
        /\ media_info.video_url \in {handled.before.video_url, LastResponse.url}
        /\ media_info.transcript_url \in {handled.before.transcript_url, LastResponse.url}

\* A response that is not JSON, whose body holds a video URL the raw-body scan
\* would take, was handled with both URL fields unset, and they stayed unset.
C10_Witness ==
    /\ Handled /\ ~IsJson(LastResponse)
    /\ LastResponse.body.readable
    /\ \E i \in 1..Len(_find_urls_in_text(BodyStrings(LastResponse.body.doc))) :
           VideoCandidate(_find_urls_in_text(BodyStrings(LastResponse.body.doc))[i])
    /\ ~Truthy(handled.before.video_url)
    /\ ~Truthy(media_info.video_url)

\* ------------------------------------------------------------ properties of _normalize_url

\* C8: a value that starts with "/" is mapped to "https://www.zoom.us" followed by
\* the value, any other value (None and the empty string included) is returned as
\* it is, and a second application changes nothing.
C8_Normalize ==
    /\ norm.calls = 1 =>
           IF norm.url # None /\ norm.url # <<>> /\ norm.url[1] = "/"
           THEN norm.value = <<"https://", "www.zoom.us">> \o norm.url
           ELSE norm.value = norm.url
    /\ norm.calls = 2 => norm.value = _normalize_url(norm.url)

\* A relative value was normalized twice.
C8_Witness ==
    /\ norm.calls = 2
    /\ norm.url # None /\ Len(norm.url) > 1 /\ norm.url[1] = "/"
    /\ norm.value = <<"https://", "www.zoom.us">> \o norm.url

\* ------------------------------------------------------------ properties of the session

Returned == pc = "returned"
Ended == pc \in {"returned", "raised"}

\* C1: during a session, response events delivered in the middle of the DOM and
\* track probes included, a URL field that holds a value is never given another
\* value and never cleared.
C1_UrlNeverReplaced ==
    [][(~Ended /\ pc # "new_page") =>
          /\ Truthy(media_info.video_url) => media_info'.video_url = media_info.video_url
          /\ Truthy(media_info.transcript_url)
                 => media_info'.transcript_url = media_info.transcript_url]_vars

\* C3: the polling loop sleeps at most ceil(max_wait_seconds / poll_interval) times;
\* a session in which no response carried a media URL and no DOM probe found an
\* element returns with both URL fields unset; and every session ends.
C3_QuietSessionEnds ==
    /\ [](ticks * poll_interval < max_wait_seconds + poll_interval)
    /\ []((Returned /\ quiet) =>
              (media_info.video_url = None /\ media_info.transcript_url = None))
    /\ <>Ended

\* A session that polled to the end of a positive maximum wait, in which responses
\* without a media URL were handled (one of them brought the topic), returned.
C3_Witness ==
    /\ Returned /\ quiet
    /\ ticks > 1
    /\ ticks * poll_interval >= max_wait_seconds
    /\ media_info.topic # None
    /\ media_info.video_url = None /\ media_info.transcript_url = None

\* C4: no call on the page that fails makes the session raise: the session always
\* returns a result.
C4_NoExceptionEscapes == pc # "raised"

\* The statements of the polling loop, and a step of the session's own flow.
InLoop == pc \in {"loop", "poll_title", "grace"}
Ticked == ticks' = ticks + 1

\* C11: a tick that finds video_url set goes to the grace wait and a tick that finds
\* it unset goes on with the loop; the grace wait is slept once, and after it the
\* loop neither ticks nor reads the title again; and while video_url is unset and
\* elapsed is below the maximum wait, the loop keeps ticking: the one step the
\* session can take is the next tick, and it is taken until the loop is left.
C11_LoopStopsAtVideo ==
    /\ [][Ticked => IF Truthy(media_info.video_url) THEN pc' = "grace"
                    ELSE pc' \in {"loop", "poll_title"}]_vars
    /\ [][(pc = "grace" /\ pc' # pc) => (graces' = 1 /\ pc' \notin {"loop", "poll_title", "grace"})]_vars
    /\ [][(graces = 1 /\ ~Ended) => (graces' = 1 /\ ~Ticked /\ ~InLoop')]_vars
    /\ [][(pc = "loop" /\ ~Truthy(media_info.video_url) /\ LoopCondition) => Ticked]_vars
    /\ (pc = "loop" /\ LoopCondition) ~> (pc # "loop" \/ ~LoopCondition)

\* A session returned whose loop stopped for the video URL before the maximum wait
\* had passed.
C11_Witness ==
    /\ Returned
    /\ graces = 1
    /\ ticks > 0
    /\ elapsed < max_wait_seconds

\* C12: the seconds the polling loop has slept in its interval sleeps, which
\* elapsed counts, never exceed max_wait_seconds.
C12_TotalWaitBounded == elapsed <= max_wait_seconds

\* C13: when page.goto fails the session goes on to the polling loop, and a video
\* URL that a response delivered after the failure put in the accumulator is the
\* video URL of the result: it stays until the session ends.
C13_NavigationFailureTolerated ==
    /\ [][(pc = "goto" /\ nav' = "failed") => pc' = "loop"]_vars
    /\ [][(nav = "failed" /\ ~Ended /\ Truthy(media_info.video_url))
              => media_info'.video_url = media_info.video_url]_vars

\* C14: navigation starts only after the subscriber is registered, and a transcript
\* URL that a response delivered after the grace wait began put in the accumulator
\* is the transcript URL of the result: it stays until the session ends.
C14_GraceTranscriptKept ==
    /\ [][(pc # "goto" /\ pc' = "goto") => pc = "on"]_vars
    /\ [][(graces = 1 /\ ~Ended /\ Truthy(media_info.transcript_url))
              => media_info'.transcript_url = media_info.transcript_url]_vars

\* ------------------------------------------------------------ the fallbacks

InVideoFallback == pc \in {"video_count", "video_attr"}
Moved == pc' # pc
NoBlob(src) == \A i \in 1..Len(src) : src[i] # "blob:"

\* C15: the video fallback is entered from the polling loop exactly when video_url
\* is unset, at the first selector, "video source"; a probe that finds nothing or
\* fails goes to the next selector, "video", or ends the fallback after the last;
\* the fallback assigns only the src an attribute read returned, non-empty and
\* without "blob:", and ends there; any other probe leaves the accumulator as it was.
C15_VideoFallback ==
    /\ [][(pc \in {"loop", "grace"} /\ Moved /\ ~InLoop')
              => (pc' = "video_count" <=> ~Truthy(media_info.video_url))]_vars
    /\ [][(~InVideoFallback /\ InVideoFallback')
              => (pc \in {"loop", "grace"} /\ pc' = "video_count"
                  /\ Selectors[selector'] = "video source")]_vars
    /\ [][(InVideoFallback /\ Moved /\ InVideoFallback')
              => IF pc' = "video_attr" THEN pc = "video_count" /\ selector' = selector
                 ELSE selector < Len(Selectors) /\ selector' = selector + 1
                      /\ media_info' = media_info]_vars
    /\ [][(InVideoFallback /\ Moved /\ ~InVideoFallback')
              => \/ selector = Len(Selectors) /\ media_info' = media_info
                 \/ /\ pc = "video_attr"
                    /\ media_info'.video_url \in VideoSrcs \ {None, <<>>}
                    /\ NoBlob(media_info'.video_url)
                    /\ media_info' = [media_info EXCEPT !.video_url = media_info'.video_url]]_vars

\* The first selector's element had no usable src and the second selector's element
\* gave the video URL of the result.
C15_Witness ==
    /\ Returned
    /\ Selectors[selector] = "video"
    /\ media_info.video_url = domVideo
    /\ graces = 0

\* C16: a result is returned only out of page.close(); page.close() is called after
\* the polling loop and the fallbacks, that is out of the loop's exit or out of a
\* fallback, never out of the loop's own title read; and after the close the
\* session makes no other call on the page: it ends, so the page is closed once.
C16_ClosedOnceAtTheEnd ==
    /\ [][(Moved /\ pc' = "returned") => pc = "close"]_vars
    /\ [][(Moved /\ pc' = "close")
              => /\ pc \in {"loop", "grace", "video_count", "video_attr", "track_count",
                            "track_attr", "page_title"}
                 /\ pc = "loop" => ~LoopCondition]_vars
    /\ [][(Moved /\ pc = "close") => Ended']_vars
    /\ [][(Moved /\ Ended) => pc' = "new_page"]_vars

\* A session returned after its loop had polled and its title fallback had taken
\* the title of the page.
C16_Witness ==
    /\ Returned
    /\ ticks > 0
    /\ media_info.topic = None
    /\ media_info.title # DefaultTitle

\* The titles the title fallback can take from the page.
PageGivenTitles == {TitleFromPage(t, <<>>) : t \in PageTitles} \ {<<>>}

\* A session returned in which no response brought a topic and the title fallback
\* took nothing from the page.
ReturnedUntitled ==
    /\ Returned
    /\ media_info.topic = None
    /\ media_info.title \notin PageGivenTitles

\* C17, as stated: a session without topic metadata whose page title is unavailable,
\* empty or discarded returns the title "Untitled_Recording".
C17_AsStated == ReturnedUntitled => media_info.title = <<"Untitled_Recording">>

\* C17, amended: such a session returns the title "Zoom_Recording".
C17_DefaultTitle == ReturnedUntitled => media_info.title = <<"Zoom_Recording">>

\* A session returned untitled after its loop had polled, a response with a media
\* URL had been handled and its title fallback had read the page's title.
C17_Witness ==
    /\ ReturnedUntitled
    /\ ticks > 0
    /\ ~quiet

\* C18: every call starts from a new accumulator, with both URLs unset, the default
\* title, no topic and no start time, whatever the call before on the same scraper
\* left; and a call in which no response carried a media URL and no probe found an
\* element returns both URLs unset also when the call before held a URL.
C18_FreshAccumulator ==
    /\ [][(pc = "new_page" /\ pc' = "on") => media_info' = MediaInfo]_vars
    /\ []((pc = "on") => media_info = MediaInfo)
    /\ []((Returned /\ quiet /\ earlier = "held")
              => (media_info.video_url = None /\ media_info.transcript_url = None))

\* A call returned without a URL on a scraper whose call before had held one.
C18_Witness ==
    /\ Returned
    /\ earlier = "held"
    /\ quiet
    /\ media_info.video_url = None
    /\ media_info.transcript_url = None

\* ------------------------------------------------------------ C19, C20: parse_vtt_cues

Parsed == pc = "parsed"

\* The texts of C19: the header line, a blank line, one timing line, one text
\* line with tags and a blank line; and the text of the cue they should give.
C19Cases ==
    {[timing |-> lTiming1, line |-> lHello, text |-> <<"Hello", " ", "world">>],
     [timing |-> lTiming2, line |-> lEntity, text |-> <<"a", " ", "&", " ", "b">>]}

C19Text(c) == VttText(hHeader, <<CueBlock(c.timing, c.line), lBlank>>)

\* C19: parsing a header line, a blank line, one timing line, one text line
\* with markup tags and a trailing blank line gives exactly one cue: its
\* timestamp is the timing line, its text is the text line without the tags,
\* with the entities decoded and the whitespace normalised.
C19_OneCleanCue ==
    \A c \in C19Cases :
        (Parsed /\ vtt.vtt_text = C19Text(c)) => vtt.cues = <<VTTCue(c.timing, c.text)>>

C19_Witness ==
    /\ Parsed
    /\ vtt.vtt_text =
           <<"WEBVTT", "\n", "\n", "00:00:01.000", " ", "-->", " ", "00:00:02.000", "\n",
             "Hello", " ", "<", "b", ">", "world", "<", "/b", ">", "\n", "\n">>
    /\ Len(vtt.cues) = 1

\* The stripped lines of the input that hold an arrow, in their order.
RECURSIVE TimingLines(_)
TimingLines(lines) ==
    IF lines = <<>> THEN <<>>
    ELSE IF Contains(Head(lines), "-->")
    THEN <<Strip(Head(lines), Space)>> \o TimingLines(Tail(lines))
    ELSE TimingLines(Tail(lines))

\* The first sequence is the second one with some of its elements left out.
RECURSIVE IsSubsequence(_, _)
IsSubsequence(a, b) ==
    IF a = <<>> THEN TRUE
    ELSE IF b = <<>> THEN FALSE
    ELSE IF Head(a) = Head(b) THEN IsSubsequence(Tail(a), Tail(b))
    ELSE IsSubsequence(a, Tail(b))

CueTimestamps == [k \in 1..Len(vtt.cues) |-> vtt.cues[k].timestamp]

\* C20: every cue has a text that is not empty; a block whose lines are all
\* empty after cleaning, or that has no line, adds no cue; the cues are in the
\* order of their timing lines in the input.
C20_NoEmptyCue ==
    /\ [](\A k \in 1..Len(vtt.cues) : vtt.cues[k].text # <<>>)
    /\ [][(pc = "collect" /\ ~InBlock /\ vtt.text_lines = <<>>) => vtt.cues' = vtt.cues]_vars
    /\ [](IsSubsequence(CueTimestamps, TimingLines(vtt.lines)))

C20_Witness ==
    /\ Parsed
    /\ Len(vtt.cues) = 2
    /\ vtt.cues[1].timestamp # vtt.cues[2].timestamp
    /\ Len(TimingLines(vtt.lines)) = 3

\* ------------------------------------------------------------ C21: the parser ends

Parsing == pc \in {"scan", "collect"}

\* C21: parse_vtt_cues ends on every text: each iteration of the outer loop
\* moves the line index up, and so does each iteration of the inner loop; the
\* index never passes the number of lines; every parse reaches its return; and
\* parsing the same text a second time returns the same cues.
C21_ParserTerminates ==
    /\ [][(pc = "scan" /\ pc' # "parsed") => vtt.i' > vtt.i]_vars
    /\ [][(pc = "collect" /\ pc' = "collect") => vtt.i' > vtt.i]_vars
    /\ [](vtt.i <= Len(vtt.lines))
    /\ [](Parsed /\ vtt.before # <<>> => vtt.cues = vtt.before[1])
    /\ (Parsing ~> Parsed)

C21_Witness ==
    /\ Parsed
    /\ vtt.before # <<>>
    /\ Len(vtt.cues) = 2
    /\ vtt.i = Len(vtt.lines)

\* ------------------------------------------------------------ C22: identifier and timing lines

\* The outer loop is at a line that is kept.
AtKeptLine ==
    /\ pc = "scan"
    /\ vtt.i < Len(vtt.lines)
    /\ ~Skipped(Strip(LineAt(vtt.i), Space))

\* The line holds the arrow.
TimingCase == AtKeptLine /\ Contains(LineAt(vtt.i), "-->")

\* The line holds no arrow and the next line does.
IdentifierCase ==
    /\ AtKeptLine
    /\ ~Contains(LineAt(vtt.i), "-->")
    /\ vtt.i + 1 < Len(vtt.lines)
    /\ Contains(LineAt(vtt.i + 1), "-->")

\* The cue of an identifier line, a padded timing line and a text line.
IdentifiedText == JoinLines(<<lId, lTimingPadded, bStray>>)

\* C22 as stated: the timestamp is the timing line exactly as it is in the
\* input, and the identifier line is passed over.
C22_AsStated ==
    /\ [][IdentifierCase => (/\ vtt.timestamp' = LineAt(vtt.i + 1)
                             /\ vtt.i' = vtt.i + 2
                             /\ vtt.text_lines' = <<>>)]_vars
    /\ [][TimingCase => (/\ vtt.timestamp' = LineAt(vtt.i)
                         /\ vtt.i' = vtt.i + 1
                         /\ vtt.text_lines' = <<>>)]_vars

\* C22: when a kept line holds no arrow and the next line does, the first line
\* is passed over with nothing collected and the timestamp is the next line
\* without the whitespace around it; when the line holds the arrow, the
\* timestamp is that line without the whitespace around it.
C22_StrippedTimingLine ==
    /\ [][IdentifierCase => (/\ vtt.timestamp' = Strip(LineAt(vtt.i + 1), Space)
                             /\ vtt.i' = vtt.i + 2
                             /\ vtt.text_lines' = <<>>)]_vars
    /\ [][TimingCase => (/\ vtt.timestamp' = Strip(LineAt(vtt.i), Space)
                         /\ vtt.i' = vtt.i + 1
                         /\ vtt.text_lines' = <<>>)]_vars
    /\ [](Parsed /\ vtt.vtt_text = IdentifiedText
            => vtt.cues = <<VTTCue(<<"00:00:05.000", " ", "-->", " ", "00:00:06.000">>,
                                   <<"Hello", " ", "world">>)>>)

C22_Witness ==
    /\ pc = "collect"
    /\ vtt.text_lines = <<>>
    /\ vtt.i >= 2
    /\ LineAt(vtt.i - 2) = lId
    /\ LineAt(vtt.i - 1) = lTimingPadded
    /\ vtt.timestamp # lTimingPadded

\* ------------------------------------------------------------ C23..C26: the two renderings

\* The texts of the cues from the k-th on, without those equal to the text of
\* the cue just before them.
RECURSIVE KeptFrom(_, _)
KeptFrom(cues, k) ==
    IF k > Len(cues) THEN <<>>
    ELSE IF k = 1 \/ cues[k].text # cues[k - 1].text
    THEN <<cues[k].text>> \o KeptFrom(cues, k + 1)
    ELSE KeptFrom(cues, k + 1)

saidHello == <<"Hello", " ", "world">>
saidAB == <<"a", " ", "&", " ", "b">>

\* C23: the paragraph is the cue texts in order with one blank between them,
\* without exactly the cues whose text equals the text of the cue just before:
\* a run of equal texts appears once, equal texts around another text both appear.
C23_AdjacentDuplicates ==
    /\ pc = "paragraph" => vtt.out = JoinBlank(KeptFrom(vtt.cues, 1))
    /\ (pc = "paragraph" /\ vtt.vtt_text = JoinLines(<<bCue1, bCue1, bCue2>>))
           => vtt.out = saidHello \o <<" ">> \o saidAB
    /\ (pc = "paragraph" /\ vtt.vtt_text = JoinLines(<<bCue1, bCue2, bCue1>>))
           => vtt.out = saidHello \o <<" ">> \o saidAB \o <<" ">> \o saidHello

C23_Witness ==
    /\ pc = "paragraph"
    /\ Len(vtt.cues) = 3
    /\ vtt.cues[1].text = vtt.cues[2].text
    /\ vtt.cues[3].text # vtt.cues[2].text
    /\ vtt.out = saidHello \o <<" ">> \o saidAB

\* The blocks of the cues, each ended by a newline, with one empty line between.
RECURSIVE Rendered(_)
Rendered(cues) ==
    IF Len(cues) = 1
    THEN cues[1].timestamp \o <<"\n">> \o cues[1].text \o <<"\n">>
    ELSE cues[1].timestamp \o <<"\n">> \o cues[1].text \o <<"\n", "\n">> \o Rendered(Tail(cues))

\* C24: the timestamped rendering of one cue or more is the blocks
\* 'timestamp, newline, text' in the order of the cues, one empty line between
\* two blocks and one newline at the end; of no cue it is one newline.
C24_TimestampedBlocks ==
    /\ (pc = "timestamped" /\ vtt.cues # <<>>) => vtt.out = Rendered(vtt.cues)
    /\ (pc = "timestamped" /\ vtt.cues = <<>>) => vtt.out = <<"\n">>
    /\ (pc = "timestamped" /\ vtt.vtt_text = bCue1)
           => vtt.out = lTiming1 \o <<"\n">> \o saidHello \o <<"\n">>

C24_Witness ==
    /\ pc = "timestamped"
    /\ Len(vtt.cues) = 2
    /\ vtt.out = lTiming1 \o <<"\n">> \o saidHello \o <<"\n", "\n">>
                    \o lTiming2 \o <<"\n">> \o saidAB \o <<"\n">>

Converted == pc \in {"paragraph", "timestamped"}

\* C26 as stated: a text without a cue is converted to the empty string.
C26_AsStated == (Converted /\ vtt.cues = <<>>) => vtt.out = <<>>

\* C26: a text without a cue is converted to the empty string by the paragraph
\* rendering and to one newline by the timestamped rendering; both return.
C26_NoCueNoText ==
    /\ (pc = "paragraph" /\ vtt.cues = <<>>) => vtt.out = <<>>
    /\ (pc = "timestamped" /\ vtt.cues = <<>>) => vtt.out = <<"\n">>
    /\ (Parsed /\ vtt.cues = <<>>) => ENABLED ToParagraph /\ ENABLED ToTimestamped

C26_Witness ==
    /\ Converted
    /\ vtt.cues = <<>>
    /\ Len(TimingLines(vtt.lines)) > 0
    /\ vtt.out \in {<<>>, <<"\n">>}

\* ------------------------------------------------------------ C27: the order of the steps

\* The last response is well typed where it was decoded.
WellTyped ==
    DecodesToResult =>
        /\ TypedFields(LastResult)
        /\ LastFiles.t = "list"
        /\ \A i \in 1..Len(LastFiles.v) : TypedRecord(LastFiles.v[i])

\* The handler ran on a well-typed response, from an unset video URL, without
\* an exception.
FromUnset == Handled /\ ~Truthy(handled.before.video_url) /\ ~handled.failed /\ WellTyped

\* The steps that can supply the video URL from the last response.
ByUrl ==
    /\ HasMarker(LastResponse.url, {".mp4"})
    /\ ~HasMarker(LastResponse.url, {"thumbnail", "avatar"})
ByContentType == Contains(ContentType(LastResponse), "video/")
Structured == IsJson(LastResponse) /\ DecodesToResult /\ IsRecordingApi(LastResponse)
ByField == Structured /\ FirstKey(LastResult, StatedVideoFields) # 0
ByRecord == Structured /\ FirstRecord(LastFiles.v, Mp4Labels) # 0
ByText ==
    /\ IsJson(LastResponse)
    /\ \E i \in 1..Len(_find_urls_in_text(BodyStrings(LastResponse.body.doc))) :
           VideoCandidate(_find_urls_in_text(BodyStrings(LastResponse.body.doc))[i])

\* What each step supplies.
FromExchange == media_info.video_url = LastResponse.url
FromField ==
    media_info.video_url
        = Absolute(PyGet(LastResult, StatedVideoFields[FirstKey(LastResult, StatedVideoFields)]).v)
FromRecord ==
    media_info.video_url = Absolute(RecUrl(LastFiles.v[FirstRecord(LastFiles.v, Mp4Labels)]))
FromText == FirstInText(media_info.video_url, VideoCandidate)

\* The steps of the body, in their order.
FromBody(otherwise) ==
    IF ByField THEN FromField
    ELSE IF ByRecord THEN FromRecord
    ELSE IF ByText THEN FromText
    ELSE otherwise

\* C27 as stated: the value is that of the first step that can supply one, in
\* the order URL string, content type, known fields, records, raw-body scan.
C27_AsStated ==
    FromUnset =>
        IF ByUrl \/ ByContentType THEN FromExchange
        ELSE FromBody(~Truthy(media_info.video_url))

\* C27: the value is that of the first step that can supply one, in the order:
\* URL string; content type, for a content type that is not JSON; and for a
\* JSON content type known fields, records, raw-body scan and content type last.
C27_StepOrder ==
    FromUnset =>
        IF ByUrl THEN FromExchange
        ELSE IF ~IsJson(LastResponse)
        THEN (IF ByContentType THEN FromExchange ELSE ~Truthy(media_info.video_url))
        ELSE FromBody(IF ByContentType THEN FromExchange ELSE ~Truthy(media_info.video_url))

\* A JSON response that also names a stream gave the video URL of its body.
C27_Witness ==
    /\ FromUnset
    /\ ~ByUrl
    /\ ByContentType
    /\ ByText
    /\ ~ByField /\ ~ByRecord
    /\ FromText
    /\ ~FromExchange

\* ------------------------------------------------------------ C28: metadata

\* The handler decoded a well-typed payload of the recording API without an
\* exception.
Recognized == Handled /\ ~handled.failed /\ Structured /\ WellTyped

LastMeet == PyGetDefault(LastResult, "meet", JObj(<<>>))

\* The topic and the start-time label the payload carries: the one of the
\* meeting when it has one, the one of the result otherwise.
Carried(name) ==
    IF PyTruthy(PyGet(LastMeet, name)) THEN PyGet(LastMeet, name) ELSE PyGet(LastResult, name)
Carries(name) == PyTruthy(Carried(name)) /\ Carried(name).t = "str"

\* '/' and ':' replaced by '-', a blank by '_'.
Replaced(str) ==
    [i \in 1..Len(str) |->
        IF str[i] \in {"/", ":"} THEN "-" ELSE IF str[i] = " " THEN "_" ELSE str[i]]

\* The response, handled alone, supplies no URL.
NoUrlSource ==
    /\ ~Truthy(handle_response(LastResponse, MediaInfo).media_info.video_url)
    /\ ~Truthy(handle_response(LastResponse, MediaInfo).media_info.transcript_url)

\* C28: a recognized payload with a topic overwrites topic with it and title
\* with the topic sanitized ('/' and ':' replaced by '-', blanks by '_', the
\* whitespace left at the ends removed), whatever they held; a start-time label
\* overwrites start_time; a payload without topic leaves topic and title as
\* they were, one without label leaves start_time; and the metadata changes no URL.
C28_MetadataLastWins ==
    Recognized =>
        /\ Carries("topic") =>
               /\ media_info.topic = Carried("topic").v
               /\ media_info.title = Strip(Replaced(Carried("topic").v), Whitespace)
        /\ ~PyTruthy(Carried("topic")) =>
               /\ media_info.topic = handled.before.topic
               /\ media_info.title = handled.before.title
        /\ Carries("meetingStartTimeStr") =>
               media_info.start_time = Carried("meetingStartTimeStr").v
        /\ ~PyTruthy(Carried("meetingStartTimeStr")) =>
               media_info.start_time = handled.before.start_time
        /\ NoUrlSource =>
               /\ media_info.video_url = handled.before.video_url
               /\ media_info.transcript_url = handled.before.transcript_url

\* A payload with a topic and no URL was handled when another topic, a title
\* and both URLs were held.
C28_Witness ==
    /\ Recognized
    /\ Carries("topic")
    /\ Truthy(handled.before.topic)
    /\ handled.before.topic # Carried("topic").v
    /\ handled.before.title # DefaultTitle
    /\ media_info.title = <<"Week", "_", "1", "-", "_", "AI", "-", "ML">>
    /\ NoUrlSource
    /\ Truthy(media_info.video_url)

\* ------------------------------------------------------------ C29: preview images

Preview(u) == HasMarker(u, {"thumbnail", "avatar"})

\* The URLs of the text of the last response's body.
TextUrls == _find_urls_in_text(BodyStrings(LastResponse.body.doc))

\* The handler ran from an unset video URL on a response whose fields and
\* records are not looked at: the URL can come from the URL string, the content
\* type and the raw-body scan only.
HeuristicsOnly ==
    Handled /\ ~Truthy(handled.before.video_url) /\ ~IsRecordingApi(LastResponse)

\* C29: the URL-string step does not adopt an exchange URL whose lower-case form
\* holds 'thumbnail' or 'avatar', the raw-body scan adopts no such URL of the
\* text, and an exchange URL that qualifies is adopted as it is, in its letter case.
C29_NoPreviewImage ==
    /\ (HeuristicsOnly /\ Preview(LastResponse.url) /\ ~ByContentType)
           => media_info.video_url # LastResponse.url
    /\ (HeuristicsOnly /\ Truthy(media_info.video_url)
                       /\ media_info.video_url # LastResponse.url)
           => /\ VideoCandidate(media_info.video_url)
              /\ ~Preview(media_info.video_url)
    /\ (Handled /\ ~Truthy(handled.before.video_url) /\ ByUrl)
           => media_info.video_url = LastResponse.url
    /\ (Handled /\ handled.exchange = 3 /\ ~Truthy(handled.before.video_url))
           => media_info.video_url = <<"https://", "cdn", "/", "B", ".MP4">>

\* The raw-body scan passed over a preview image with a video marker and took a
\* later URL of the text.
C29_Witness ==
    /\ HeuristicsOnly
    /\ LastResponse.body.readable
    /\ Len(TextUrls) > 1
    /\ Preview(TextUrls[1])
    /\ HasMarker(TextUrls[1], {".mp4"})
    /\ \E i \in 2..Len(TextUrls) : media_info.video_url = TextUrls[i]

\* ------------------------------------------------------------ C30: progress notes

\* The sleep of this iteration takes the elapsed time past a multiple of
\* ProgressEvery seconds.
SpanEnds == elapsed' \div ProgressEvery > elapsed \div ProgressEvery

\* C30: while the video URL is unset, the iteration of the polling loop that
\* ends a span of 15 seconds of elapsed time emits a progress note, whatever
\* the poll interval, and the loop goes on after the note, whether the title
\* was read or not.
C30_NoteEverySpan ==
    /\ [][(pc = "loop" /\ LoopCondition /\ ~Truthy(media_info.video_url) /\ SpanEnds)
             => pc' = "poll_title"]_vars
    /\ [][pc = "poll_title" => pc' = "loop"]_vars

\* ------------------------------------------------------------ C31

\* The candidate of the title fallback: the page's title sanitized like a topic,
\* without a trailing "- Zoom".
Candidate(given) == Strip(RemoveBranding(_sanitize_title(given)), {"_", "-", " "})

\* The titles of the pages on which the user signs in.
SignInPages == {tSignIn}

\* The title fallback has read the title of the page.
TitleRead == pc = "page_title" /\ pc' = "close" /\ raw_title' # None

\* C31: the title fallback starts only on the default title, and it leaves the
\* title as it is exactly when its candidate is empty or the page is a sign-in page;
\* otherwise the title becomes the candidate.
C31_SignInPagesOnly ==
    [][/\ (pc # "page_title" /\ pc' = "page_title") => media_info'.title = DefaultTitle
       /\ TitleRead =>
              media_info'.title =
                  IF Candidate(raw_title') = <<>> \/ raw_title' \in SignInPages
                  THEN media_info.title
                  ELSE Candidate(raw_title')]_vars

\* ------------------------------------------------------------ C34

\* C34: a title that came from topic metadata is not replaced by the title fallback,
\* also when the response with the topic is handled while the fallback reads the
\* page's title.
C34_TopicTitleKept ==
    [][(pc = "page_title" /\ pc' = "close" /\ Truthy(media_info.topic))
           => media_info'.title = media_info.title]_vars

\* ------------------------------------------------------------ C35

\* The loop holds a transcript URL and no video URL.
TranscriptOnly == ~Truthy(media_info.video_url) /\ Truthy(media_info.transcript_url)

\* C35: a loop that holds a transcript URL and no video URL does not go to its
\* grace wait; where its condition holds its one step is the next tick, and it is
\* left for the fallbacks only when elapsed has reached the maximum wait.
C35_TranscriptKeepsPolling ==
    [][(InLoop /\ TranscriptOnly) =>
           /\ pc' # "grace"
           /\ (pc = "loop" /\ LoopCondition) => Ticked
           /\ ~InLoop' => elapsed >= max_wait_seconds]_vars

\* The loop has polled with a transcript URL and no video URL up to the maximum
\* wait, and is about to be left for the fallbacks.
C35_Witness ==
    /\ pc = "loop"
    /\ TranscriptOnly
    /\ ~LoopCondition
    /\ ticks > 1
    /\ graces = 0
    /\ max_wait_seconds > 0

\* ------------------------------------------------------------ C32

\* A cue starts at the line the outer loop stands on.
CueFound == pc = "scan" /\ pc' = "collect"

\* C32: a blank line, the header line and a line that begins with NOTE are neither
\* the timestamp of a cue nor the identifier before a timing line.
C32_SkippedLinesUnused ==
    [][/\ \A k \in 1..Len(vtt'.cues) : ~Skipped(vtt'.cues[k].timestamp)
       /\ (CueFound /\ vtt'.i = vtt.i + 2) => ~Skipped(Strip(LineAt(vtt.i), Space))]_vars

\* ------------------------------------------------------------ C33

\* The text parsed last is the text parsed before it without one malformed block.
BlockRemoved == Parsed /\ vtt.whole # <<>>

\* C33: the cues of a text are the cues of the text without one of its blocks that
\* have no timing line, the blocks being separated by blank lines.
C33_MalformedBlockSkipped == BlockRemoved => vtt.cues = vtt.whole[1]

\* A text with two cues and between them a block without a timing line.
C33_Witness ==
    /\ BlockRemoved
    /\ Len(vtt.cues) = 2
    /\ Len(vtt.parts) = 0
    /\ vtt.vtt_text = VttText(<<>>, <<bCue1, bCue2>>)

\* ------------------------------------------------------------ the CLI commands

\* What the user gives for the recording's URL.
CliUrls == {<<"https://", "zoom.us", "/", "rec">>, <<"http://", "zoom.us">>, <<"zoom.us", "/", "rec">>,
            <<"ftp://", "zoom.us">>}
Snapshots == {"none", "anon", "auth"}

\* What extract_media_info returns to the command.
Extracted ==
    {[MediaInfo EXCEPT !.video_url = video_url, !.transcript_url = transcript_url]
         : video_url \in {None, <<"https://", "cdn", "/", "a", ".mp4">>},
           transcript_url \in {None, <<"https://", "cdn", "/", "a", ".vtt">>}}

\* What fetch_text returns: None when the request fails, else the text of the response.
Fetched == {None, <<>>, hHeader \o bCue1}

\* The answers of _prompt_transcript_preferences.
TranscriptPrefs ==
    {[style |-> "paragraph", format |-> "txt"], [style |-> "timestamped", format |-> "txt"],
     [style |-> "timestamped", format |-> "vtt"]}

InitCli ==
    /\ pc = "cli"
    /\ cli = NoCli
    /\ media_info = MediaInfo
    /\ handled = NotHandled
    /\ norm = NoNorm
    /\ vtt = NoVtt
    /\ raw_title = None
    /\ SessionIdle

\* The call is added to the log.
Logged(c, call) == [c EXCEPT !.log = Append(@, call)]

\* A test that takes any text for a URL.
AnyUrl(url) == TRUE

\* url.startswith(("http://", "https://"))
ValidUrl(url) == url # <<>> /\ Head(url) \in {"http://", "https://"}

\* BrowserSessionManager.is_logged_in: the snapshot holds a Zoom login cookie.
is_logged_in(snapshot) == snapshot = "auth"

\* A choice that always takes the video.
AlwaysVideo(choice) == TRUE

\* download_video_opt = choice in ("1", "3")
download_video_opt(choice) == choice \in {"1", "3"}

\* download_transcript_opt = choice in ("2", "3")
download_transcript_opt(choice) == choice \in {"2", "3"}

\* transcript_prefs and transcript_prefs["format"] == "vtt"
WantsVtt(transcript_prefs) == transcript_prefs # NoPrefs /\ transcript_prefs.format = "vtt"

\* save_cookies: the directory of the snapshot exists (get_browser_context made it),
\* and storage_state and the write are in a try: the snapshot is written, or left.
save_cookies(c, stored) == [Logged(c, "save_cookies") EXCEPT !.snapshot = stored]

\* What a call of save_cookies can leave in the snapshot file.
Stored(c) == {c.snapshot, "anon", "auth"}

\* context.close()
Closed(c) == [Logged(c, "close") EXCEPT !.context = "closed"]

\* A finally block that closes the context before it saves the cookies.
FinallyClosesFirst(c, stored) == save_cookies(Closed(c), stored)

\* finally: self.browser_session.save_cookies(context); context.close()
Finally(c, stored) == Closed(save_cookies(c, stored))

\* The login command: _run_login_flow
login ==
    /\ pc = "cli"
    /\ pc' = "login_open"
    /\ \E snapshot \in Snapshots :
           cli' = [cli EXCEPT !.command = "login", !.snapshot = snapshot]
    /\ UNCHANGED <<media_info, sessionVars, handled, norm, vtt, raw_title>>

\* The download command up to the test of its URL.
download ==
    /\ pc = "cli"
    /\ \E url \in CliUrls : \E snapshot \in Snapshots :
           /\ cli' = [cli EXCEPT !.command = "download", !.url = url, !.snapshot = snapshot]
           /\ pc' = IF ValidUrl(url) THEN "ensure" ELSE "done"
    /\ UNCHANGED <<media_info, sessionVars, handled, norm, vtt, raw_title>>

\* _ensure_logged_in up to the login flow.
_ensure_logged_in ==
    /\ pc = "ensure"
    /\ IF is_logged_in(cli.snapshot)
       THEN pc' = "prompt" /\ cli' = [Logged(cli, "is_logged_in") EXCEPT !.logged_in = "yes"]
       ELSE pc' = "login_open" /\ cli' = Logged(cli, "is_logged_in")
    /\ UNCHANGED <<media_info, sessionVars, handled, norm, vtt, raw_title>>

\* get_browser_context returns the context, or raises before there is one.
OpenContext(at, then) ==
    /\ pc = at
    /\ \/ pc' = then /\ cli' = [Logged(cli, "get_browser_context") EXCEPT !.context = "open"]
       \/ pc' = "cli_raised" /\ UNCHANGED cli
    /\ UNCHANGED <<media_info, sessionVars, handled, norm, vtt, raw_title>>

LoginOpens == OpenContext("login_open", "login_page")

\* context.new_page(), page.goto(login_url) and the wait for the window to close:
\* the first two can raise.
LoginPage ==
    /\ pc = "login_page"
    /\ pc' = "login_finally"
    /\ \E raising \in BOOLEAN : cli' = [cli EXCEPT !.raising = raising]
    /\ UNCHANGED <<media_info, sessionVars, handled, norm, vtt, raw_title>>

\* The finally block of _run_login_flow; context.close() can raise too.
LoginFinally ==
    /\ pc = "login_finally"
    /\ \E stored \in Stored(cli) : cli' = Finally(cli, stored)
    /\ \/ pc' = IF cli.raising THEN "cli_raised"
                 ELSE IF cli.command = "login" THEN "done" ELSE "recheck"
       \/ pc' = "cli_raised"
    /\ UNCHANGED <<media_info, sessionVars, handled, norm, vtt, raw_title>>

\* _ensure_logged_in after the login flow.
LoginChecked ==
    /\ pc = "recheck"
    /\ IF is_logged_in(cli.snapshot)
       THEN pc' = "prompt" /\ cli' = [Logged(cli, "is_logged_in") EXCEPT !.logged_in = "yes"]
       ELSE pc' = "done" /\ cli' = [Logged(cli, "is_logged_in") EXCEPT !.logged_in = "no"]
    /\ UNCHANGED <<media_info, sessionVars, handled, norm, vtt, raw_title>>

\* _prompt_download_target and _prompt_transcript_preferences
Prompt ==
    /\ pc = "prompt"
    /\ pc' = "open"
    /\ \E choice \in {"1", "2", "3"} :
           \E prefs \in IF download_transcript_opt(choice) THEN TranscriptPrefs
                        ELSE {NoPrefs} :
               cli' = [Logged(cli, "prompt") EXCEPT !.choice = choice,
                                                    !.transcript_prefs = prefs]
    /\ UNCHANGED <<media_info, sessionVars, handled, norm, vtt, raw_title>>

DownloadOpens == OpenContext("open", "extract")

\* extract_media_info returns or raises; then context.cookies() returns or raises.
Extract ==
    /\ pc = "extract"
    /\ pc' = "finally"
    /\ \/ \E info \in Extracted : \E raising \in BOOLEAN :
              /\ media_info' = info
              /\ cli' = [Logged(cli, "extract_media_info") EXCEPT !.raising = raising]
       \/ /\ cli' = [Logged(cli, "extract_media_info") EXCEPT !.raising = TRUE]
          /\ UNCHANGED media_info
    /\ UNCHANGED <<sessionVars, handled, norm, vtt, raw_title>>

\* The finally block of download; context.close() can raise too.
DownloadFinally ==
    /\ pc = "finally"
    /\ \E stored \in Stored(cli) : cli' = Finally(cli, stored)
    /\ \/ pc' = IF cli.raising THEN "cli_raised" ELSE "output_dir"
       \/ pc' = "cli_raised"
    /\ UNCHANGED <<media_info, sessionVars, handled, norm, vtt, raw_title>>

\* _choose_output_directory: the directory is made, or mkdir raises.
_choose_output_directory ==
    /\ pc = "output_dir"
    /\ \/ pc' = "video" /\ cli' = Logged(cli, "mkdir")
       \/ pc' = "cli_raised" /\ UNCHANGED cli
    /\ UNCHANGED <<media_info, sessionVars, handled, norm, vtt, raw_title>>

\* if download_video_opt and video_url: download_file returns True or False.
DownloadVideo ==
    /\ pc = "video"
    /\ pc' = "transcript"
    /\ IF download_video_opt(cli.choice) /\ Truthy(media_info.video_url)
       THEN \E saved \in {"saved", "failed"} :
                cli' = [Logged(cli, "download_video") EXCEPT !.video = saved]
       ELSE UNCHANGED cli
    /\ UNCHANGED <<media_info, sessionVars, handled, norm, vtt, raw_title>>

\* if download_transcript_opt and transcript_url: the file is downloaded as it is,
\* or its text is fetched.
DownloadTranscript ==
    /\ pc = "transcript"
    /\ IF ~(download_transcript_opt(cli.choice) /\ Truthy(media_info.transcript_url))
       THEN pc' = "done" /\ UNCHANGED cli
       ELSE IF WantsVtt(cli.transcript_prefs)
       THEN pc' = "done" /\ cli' = Logged(cli, "download_transcript")
       ELSE \E vtt_text \in Fetched :
                /\ cli' = [Logged(cli, "fetch_text") EXCEPT !.vtt_text = vtt_text]
                /\ pc' = IF Truthy(vtt_text) THEN "save_text" ELSE "done"
    /\ UNCHANGED <<media_info, sessionVars, handled, norm, vtt, raw_title>>

\* The text is converted in the chosen style and saved.
SaveText ==
    /\ pc = "save_text"
    /\ pc' = "done"
    /\ cli' = Logged(Logged(cli, IF cli.transcript_prefs.style = "paragraph"
                                 THEN "vtt_to_paragraph" ELSE "vtt_to_timestamped_txt"),
                      "_save_text_file")
    /\ UNCHANGED <<media_info, sessionVars, handled, norm, vtt, raw_title>>

NextCli ==
    \/ login
    \/ download
    \/ _ensure_logged_in
    \/ LoginOpens
    \/ LoginPage
    \/ LoginFinally
    \/ LoginChecked
    \/ Prompt
    \/ DownloadOpens
    \/ Extract
    \/ DownloadFinally
    \/ _choose_output_directory
    \/ DownloadVideo
    \/ DownloadTranscript
    \/ SaveText

SpecCli == InitCli /\ [][NextCli]_vars

\* ------------------------------------------------------------ C36

\* The calls on a browser context, in the order they were made.
OnContext(call) == call \in {"get_browser_context", "save_cookies", "close"}
ContextCalls == SelectSeq(cli.log, OnContext)
Lifecycle == <<"get_browser_context", "save_cookies", "close">>

\* The statements of the two try blocks and their finally blocks.
InTry == pc \in {"login_page", "login_finally", "extract", "finally"}

\* C36: in the login and download commands every context that was opened has its
\* cookies saved and is then closed, once, before the command leaves the try
\* statement, whether its body raised or not; the saving precedes the close.
C36_SavedThenClosed ==
    /\ \A k \in 1..Len(ContextCalls) : ContextCalls[k] = Lifecycle[((k - 1) % 3) + 1]
    /\ Len(ContextCalls) % 3 = IF cli.context = "open" THEN 1 ELSE 0
    /\ cli.context = "open" <=> InTry

\* A download that logged in first and whose extraction or cookie reading raised:
\* both contexts were saved and closed, and the command ended with the exception.
C36_Witness ==
    /\ pc = "cli_raised"
    /\ cli.command = "download"
    /\ cli.raising
    /\ cli.context = "closed"
    /\ ContextCalls = Lifecycle \o Lifecycle

\* ------------------------------------------------------------ C37

Did(call) == Contains(cli.log, call)
Opened == Len(SelectSeq(cli.log, LAMBDA call : call = "get_browser_context"))

\* The calls that extract the recording or write a file of the download.
OutputCalls ==
    {"extract_media_info", "mkdir", "download_video", "download_transcript", "fetch_text",
     "vtt_to_paragraph", "vtt_to_timestamped_txt", "_save_text_file"}

\* The URL the user gave starts with "http://" or with "https://".
HttpUrl == cli.url # <<>> /\ cli.url[1] \in {"http://", "https://"}

\* C37: a download whose URL starts with neither "http://" nor "https://" makes no
\* call at all before it returns, and a download whose login is not completed by
\* its one login flow returns with no extraction and no file written.
C37_ReturnsEarly ==
    /\ (cli.command = "download" /\ ~HttpUrl) =>
           pc \in {"done"} /\ cli.log = <<>> /\ cli.context = "none"
    /\ cli.logged_in = "no" =>
           /\ pc = "done"
           /\ Opened = 1
           /\ \A k \in 1..Len(cli.log) : cli.log[k] \notin OutputCalls \cup {"prompt"}

\* A download that opened the browser for the login, found no login cookie in the
\* snapshot afterwards, and returned.
C37_Witness ==
    /\ pc = "done"
    /\ cli.logged_in = "no"
    /\ cli.snapshot = "anon"
    /\ HttpUrl
    /\ cli.log = <<"is_logged_in">> \o Lifecycle \o <<"is_logged_in">>

\* ------------------------------------------------------------ C38

TranscriptCalls ==
    {"download_transcript", "fetch_text", "vtt_to_paragraph", "vtt_to_timestamped_txt",
     "_save_text_file"}
Converted38 == Did("vtt_to_paragraph") \/ Did("vtt_to_timestamped_txt")
Before(first, second) ==
    \A j \in 1..Len(cli.log) : \A k \in 1..Len(cli.log) :
        (cli.log[j] = first /\ cli.log[k] = second) => j < k

\* What the user chose at the menu: 1 the video, 2 the transcript, 3 both.
VideoChosen == cli.choice \in {"1", "3"}
TranscriptChosen == cli.choice \in {"2", "3"}
VttChosen == cli.transcript_prefs.format = "vtt"

\* C38: the video is downloaded only when chosen and found, and so is the
\* transcript; the video download precedes every call for the transcript, and the
\* transcript step is taken whether it succeeded or not; the text file is written
\* only after a non-empty text was fetched; and with the VTT format the file is
\* downloaded as it is, with no fetch, no conversion and no text file.
C38_DownloadSteps ==
    /\ Did("download_video") => VideoChosen /\ Truthy(media_info.video_url)
    /\ (Did("download_transcript") \/ Did("fetch_text")) =>
           TranscriptChosen /\ Truthy(media_info.transcript_url)
    /\ \A call \in TranscriptCalls : Before("download_video", call)
    /\ (pc = "done" /\ Did("mkdir") /\ TranscriptChosen
           /\ Truthy(media_info.transcript_url)) =>
           Did("download_transcript") \/ Did("fetch_text")
    /\ (Did("_save_text_file") \/ Converted38) =>
           /\ Truthy(cli.vtt_text)
           /\ Before("fetch_text", "_save_text_file")
           /\ ~Did("download_transcript")
    /\ Did("download_transcript") <=>
           (pc = "done" /\ Did("mkdir") /\ VttChosen
               /\ Truthy(media_info.transcript_url))
    /\ VttChosen =>
           ~Did("fetch_text") /\ ~Converted38 /\ ~Did("_save_text_file")

\* A download of both assets whose video download failed and whose transcript was
\* fetched, converted and saved.
C38_Witness ==
    /\ pc = "done"
    /\ cli.video = "failed"
    /\ cli.choice = "3"
    /\ Did("vtt_to_paragraph")
    /\ Did("_save_text_file")
====
